---------------------------- MODULE Spec2Model ----------------------------
(***************************************************************************)
(* The issue detection and scoring engine of code-quality-agent:           *)
(* the three analyzers (security, performance, complexity), the            *)
(* augmentation step enhanceWithAI, the scoring function calculateMetrics  *)
(* and the orchestrator analyzeCode.                                       *)
(*                                                                         *)
(* A file's content is the sequence of its lines (content.split("\n"), so  *)
(* never empty).  A line is its text; what the analyzers' regular          *)
(* expressions and substring tests find in a line is tabulated per text    *)
(* below, positions counted from 0 as in JavaScript.                       *)
(***************************************************************************)
EXTENDS Integers, Sequences, FiniteSets, TLC

VARIABLES
    files,              \* the CodeFile[] handed to analyzeCode / analyze
    pc,                 \* where the run is
    securityIssues,     \* analyzeCode's local securityIssues
    performanceIssues,  \* analyzeCode's local performanceIssues
    complexityIssues,   \* analyzeCode's local complexityIssues
    allIssues,          \* analyzeCode's local allIssues
    calls,              \* number of chat.completions.create calls issued
    response,           \* how the advisory call settled
    result,             \* the AnalysisResult analyzeCode resolved with
    findings,           \* the argument of a direct calculateMetrics call
    metrics,            \* what that call returned
    github,             \* the url, the remote and the clone of analyzeGitHubRepo
    server              \* the HTTP server: its clock, cache, uploads and requests

vars == << files, pc, securityIssues, performanceIssues, complexityIssues,
           allIssues, calls, response, result, findings, metrics, github,
           server >>

-----------------------------------------------------------------------------
(* Bounds of the model. *)

\* Lines of all the files of one run together (every file has at least one).
MaxLines == 3
\* Elements of the JSON array in an advisory response.
MaxAiIssues == 1
\* Length of each of the two runs of equal findings a scored list is made of.
MaxRepeat == 6
\* Body lines of the function of a file made of one long function.
MaxBodyLines == 100
\* Lines before, between and after the parts of a file made of given parts.
MaxPad == 1

-----------------------------------------------------------------------------
(* Line texts and what the analyzers find in them. *)
\* Loop lines in the body of a function whose branches are counted.
MaxBranches == 11
\* Requests the HTTP server handles in one run.
MaxRequests == 2
\* Milliseconds Date.now() advances in one run.
MaxClock == 1
(* Every line text the bounded inputs are drawn from. *)
LineTexts ==
    { "let total = 0;",
      "",
      "const password = \"hardcoded123\";",
      "        const password = \"a-much-longer-hardcoded-credential-42\";",
      "db.query(\"SELECT * FROM users WHERE token = 'abcdefgh' AND id = \" + id + \"\");",
      "db.query(\"SELECT * FROM t WHERE password = 'abc' AND api_key = 'abcdefgh' AND secret = 'abcdefgh' AND token = 'abcdefgh' AND id = \" + id + \"\");",
      "el.innerHTML = userInput;",
      "for (let i = 0; i < n; i++) {",
      "items.forEach(item => {",
      "rows.filter(ok).map(fmt).forEach(send);",
      "xs.map(f).map(g);",
      "}",
      "function handle(req) {",
      "function pick(a, b) { return a && b || a ? b : a && b ? a || b : b && a ? a : b && a || b; }",
      "function route(a, b) { if (a && b || a ? b : a && b ? a || b : b && a ? a : b && a || b) { return a && b || a ? b : a && b ? a || b : b && a ? a : b && a || b; } }",
      "window.addEventListener(\"load\", init);",
      "window.removeEventListener(\"load\", init);",
      "setInterval(tick, 1000);",
      "clearInterval(timer);",
      "\"express\": \"^4.18.2\",",
      "// TODO: tidy up" }

(* String.length of a line text (raw or trimmed). *)
Length(line) ==
    CASE line = "let total = 0;" -> 14
      [] line = "const password = \"hardcoded123\";" -> 32
      [] line = "        const password = \"a-much-longer-hardcoded-credential-42\";" -> 65
      [] line = "db.query(\"SELECT * FROM users WHERE token = 'abcdefgh' AND id = \" + id + \"\");" -> 77
      [] line = "db.query(\"SELECT * FROM t WHERE password = 'abc' AND api_key = 'abcdefgh' AND secret = 'abcdefgh' AND token = 'abcdefgh' AND id = \" + id + \"\");" -> 143
      [] line = "el.innerHTML = userInput;" -> 25
      [] line = "for (let i = 0; i < n; i++) {" -> 29
      [] line = "items.forEach(item => {" -> 23
      [] line = "rows.filter(ok).map(fmt).forEach(send);" -> 39
      [] line = "xs.map(f).map(g);" -> 17
      [] line = "}" -> 1
      [] line = "function handle(req) {" -> 22
      [] line = "function pick(a, b) { return a && b || a ? b : a && b ? a || b : b && a ? a : b && a || b; }" -> 92
      [] line = "function route(a, b) { if (a && b || a ? b : a && b ? a || b : b && a ? a : b && a || b) { return a && b || a ? b : a && b ? a || b : b && a ? a : b && a || b; } }" -> 163
      [] line = "window.addEventListener(\"load\", init);" -> 38
      [] line = "window.removeEventListener(\"load\", init);" -> 41
      [] line = "setInterval(tick, 1000);" -> 24
      [] line = "clearInterval(timer);" -> 21
      [] line = "\"express\": \"^4.18.2\"," -> 21
      [] line = "// TODO: tidy up" -> 16
      [] line = "const password = \"a-much-longer-hardcoded-credential-42\";" -> 57
      [] OTHER -> 0

(* String.prototype.trim: the text without leading and trailing white space. *)
Trim(line) ==
    CASE line = "        const password = \"a-much-longer-hardcoded-credential-42\";" -> "const password = \"a-much-longer-hardcoded-credential-42\";"
      [] OTHER -> line

(* security.ts patterns of checkHardcodedSecrets: for each of the five
   expressions, in order, the <<start, end>> of every match the expression has
   in the line, by increasing start (what exec finds from a given lastIndex). *)
secretPatterns(line) ==
    CASE line = "const password = \"hardcoded123\";" -> << << << 6, 31 >> >>, <<>>, <<>>, <<>>, <<>> >>
      [] line = "        const password = \"a-much-longer-hardcoded-credential-42\";" -> << << << 14, 64 >> >>, <<>>, <<>>, <<>>, <<>> >>
      [] line = "db.query(\"SELECT * FROM users WHERE token = 'abcdefgh' AND id = \" + id + \"\");" -> << <<>>, <<>>, <<>>, << << 36, 75 >> >>, <<>> >>
      [] line = "db.query(\"SELECT * FROM t WHERE password = 'abc' AND api_key = 'abcdefgh' AND secret = 'abcdefgh' AND token = 'abcdefgh' AND id = \" + id + \"\");" -> << << << 32, 141 >> >>, << << 53, 141 >> >>, << << 78, 141 >> >>, << << 102, 141 >> >>, <<>> >>
      [] OTHER -> << <<>>, <<>>, <<>>, <<>>, <<>> >>

(* security.ts patterns of checkSQLInjection, as secretPatterns. *)
sqlPatterns(line) ==
    CASE line = "db.query(\"SELECT * FROM users WHERE token = 'abcdefgh' AND id = \" + id + \"\");" -> << <<>>, << << 3, 75 >> >>, << << 10, 72 >> >>, <<>> >>
      [] line = "db.query(\"SELECT * FROM t WHERE password = 'abc' AND api_key = 'abcdefgh' AND secret = 'abcdefgh' AND token = 'abcdefgh' AND id = \" + id + \"\");" -> << <<>>, << << 3, 141 >> >>, << << 10, 138 >> >>, <<>> >>
      [] OTHER -> << <<>>, <<>>, <<>>, <<>> >>

(* security.ts patterns of checkXSS, as secretPatterns. *)
xssPatterns(line) ==
    CASE line = "el.innerHTML = userInput;" -> << << << 3, 16 >> >>, <<>>, <<>> >>
      [] OTHER -> << <<>>, <<>>, <<>> >>

(* performance.ts inefficientPatterns, as secretPatterns. *)
inefficientPatterns(line) ==
    CASE line = "xs.map(f).map(g);" -> << <<>>, <<>>, << << 2, 14 >> >>, <<>> >>
      [] OTHER -> << <<>>, <<>>, <<>>, <<>> >>

(* performance.ts checkNestedLoops: for each of the loopKeywords for, while,
   forEach, map, filter, in order, whether the trimmed line includes the keyword
   and includes "(" or " ". *)
loopKeywordHits(line) ==
    CASE line = "for (let i = 0; i < n; i++) {" -> << TRUE, FALSE, FALSE, FALSE, FALSE >>
      [] line = "items.forEach(item => {" -> << TRUE, FALSE, TRUE, FALSE, FALSE >>
      [] line = "rows.filter(ok).map(fmt).forEach(send);" -> << TRUE, FALSE, TRUE, TRUE, TRUE >>
      [] line = "xs.map(f).map(g);" -> << FALSE, FALSE, FALSE, TRUE, FALSE >>
      [] OTHER -> << FALSE, FALSE, FALSE, FALSE, FALSE >>

(* Number of matches of /{/g in a trimmed line. *)
OpenBraces(line) ==
    CASE line = "for (let i = 0; i < n; i++) {" -> 1
      [] line = "items.forEach(item => {" -> 1
      [] line = "function handle(req) {" -> 1
      [] line = "function pick(a, b) { return a && b || a ? b : a && b ? a || b : b && a ? a : b && a || b; }" -> 1
      [] line = "function route(a, b) { if (a && b || a ? b : a && b ? a || b : b && a ? a : b && a || b) { return a && b || a ? b : a && b ? a || b : b && a ? a : b && a || b; } }" -> 2
      [] OTHER -> 0

(* Number of matches of /}/g in a trimmed line. *)
CloseBraces(line) ==
    CASE line = "}" -> 1
      [] line = "function pick(a, b) { return a && b || a ? b : a && b ? a || b : b && a ? a : b && a || b; }" -> 1
      [] line = "function route(a, b) { if (a && b || a ? b : a && b ? a || b : b && a ? a : b && a || b) { return a && b || a ? b : a && b ? a || b : b && a ? a : b && a || b; } }" -> 2
      [] OTHER -> 0

(* complexity.ts isFunctionDeclaration: some declaration pattern matches. *)
isFunctionDeclaration(line) ==
    CASE line = "function handle(req) {" -> TRUE
      [] line = "function pick(a, b) { return a && b || a ? b : a && b ? a || b : b && a ? a : b && a || b; }" -> TRUE
      [] line = "function route(a, b) { if (a && b || a ? b : a && b ? a || b : b && a ? a : b && a || b) { return a && b || a ? b : a && b ? a || b : b && a ? a : b && a || b; } }" -> TRUE
      [] OTHER -> FALSE

(* complexity.ts checkCyclomaticComplexity: the sum over the complexityKeywords
   if, else if, for, while, case, &&, ||, ?, catch of the number of matches of
   the escaped keyword in the trimmed line. *)
KeywordOccurrences(line) ==
    CASE line = "for (let i = 0; i < n; i++) {" -> 1
      [] line = "items.forEach(item => {" -> 1
      [] line = "rows.filter(ok).map(fmt).forEach(send);" -> 1
      [] line = "function pick(a, b) { return a && b || a ? b : a && b ? a || b : b && a ? a : b && a || b; }" -> 10
      [] line = "function route(a, b) { if (a && b || a ? b : a && b ? a || b : b && a ? a : b && a || b) { return a && b || a ? b : a && b ? a || b : b && a ? a : b && a || b; } }" -> 21
      [] OTHER -> 0

(* l.startsWith("//") or l.startsWith("/*") of a trimmed line. *)
StartsComment(line) ==
    CASE line = "// TODO: tidy up" -> TRUE
      [] OTHER -> FALSE

(* line.includes("addEventListener"). *)
IncludesAddEventListener(line) ==
    CASE line = "window.addEventListener(\"load\", init);" -> TRUE
      [] OTHER -> FALSE

(* line.includes("removeEventListener"). *)
IncludesRemoveEventListener(line) ==
    CASE line = "window.removeEventListener(\"load\", init);" -> TRUE
      [] OTHER -> FALSE

(* line.includes("setInterval"). *)
IncludesSetInterval(line) ==
    CASE line = "setInterval(tick, 1000);" -> TRUE
      [] OTHER -> FALSE

(* line.includes("clearInterval"). *)
IncludesClearInterval(line) ==
    CASE line = "clearInterval(timer);" -> TRUE
      [] OTHER -> FALSE

(* The line includes "*", "^" or "~". *)
IncludesRangeOperator(line) ==
    CASE line = "db.query(\"SELECT * FROM users WHERE token = 'abcdefgh' AND id = \" + id + \"\");" -> TRUE
      [] line = "db.query(\"SELECT * FROM t WHERE password = 'abc' AND api_key = 'abcdefgh' AND secret = 'abcdefgh' AND token = 'abcdefgh' AND id = \" + id + \"\");" -> TRUE
      [] line = "\"express\": \"^4.18.2\"," -> TRUE
      [] OTHER -> FALSE

-----------------------------------------------------------------------------
(* Helpers. *)

Max(a, b) == IF a >= b THEN a ELSE b

RECURSIVE Flatten(_)
(* issues.push(...a); issues.push(...b); ... : the lists one after the other. *)
Flatten(lists) ==
    IF Len(lists) = 0 THEN <<>>
    ELSE IF Len(lists) = 1 THEN lists[1]
    ELSE LET mid == Len(lists) \div 2
         IN  Flatten(SubSeq(lists, 1, mid))
                 \o Flatten(SubSeq(lists, mid + 1, Len(lists)))

RECURSIVE Sum(_)
(* The sum of a list of numbers. *)
Sum(ns) ==
    IF Len(ns) = 0 THEN 0
    ELSE IF Len(ns) = 1 THEN ns[1]
    ELSE LET mid == Len(ns) \div 2
         IN  Sum(SubSeq(ns, 1, mid)) + Sum(SubSeq(ns, mid + 1, Len(ns)))

(* file.content.includes(s) for a text s without a line break: some line of *)
(* the content includes it.                                                 *)
ContentIncludesRangeOperator(file) ==
    \E i \in 1..Len(file.content) : IncludesRangeOperator(file.content[i])

ContentIncludesRemoveEventListener(file) ==
    \E i \in 1..Len(file.content) : IncludesRemoveEventListener(file.content[i])

ContentIncludesClearInterval(file) ==
    \E i \in 1..Len(file.content) : IncludesClearInterval(file.content[i])

-----------------------------------------------------------------------------
(* QualityIssue.  impact and recommendation are fixed texts per title and are *)
(* left out; location.line is absent from a file-level finding.  A snippet is *)
(* the list of its lines; a description is the list of its template parts.    *)

Categories ==
    { "security", "performance", "complexity", "duplication", "testing",
      "documentation" }

Severities == { "critical", "high", "medium", "low" }

Issue(category, severity, title, description, file, line, snippet) ==
    [ category |-> category, severity |-> severity, title |-> title,
      description |-> description,
      location |-> [ file |-> file.path, line |-> line, snippet |-> snippet ] ]

FileIssue(category, severity, title, description, file) ==
    [ category |-> category, severity |-> severity, title |-> title,
      description |-> description,
      location |-> [ file |-> file.path ] ]

-----------------------------------------------------------------------------
(* Rules made of global (/g) regular expressions tested line by line.        *)

(* RegExp.prototype.test of a /g expression whose matches in the line are    *)
(* spans: the search starts at lastIndex; the value is the new lastIndex,    *)
(* the end of the match found, or 0 when there is none (test is then false). *)
RegExpTest(spans, lastIndex) ==
    LET from == { k \in 1..Len(spans) : spans[k][1] >= lastIndex }
    IN  IF from = {} THEN 0
        ELSE spans[CHOOSE k \in from : \A j \in from : k <= j][2]

PatternsOf(rule, line) ==
    CASE rule = "secret" -> secretPatterns(line)
      [] rule = "sql" -> sqlPatterns(line)
      [] rule = "xss" -> xssPatterns(line)
      [] rule = "inefficient" -> inefficientPatterns(line)

(* `Inefficient Operation: ${title}` of each of the inefficientPatterns. *)
inefficientTitles ==
    << "Inefficient Operation: Chained Array Find Operations",
       "Inefficient Operation: Chained Filter Operations",
       "Inefficient Operation: Chained Map Operations",
       "Inefficient Operation: String Concatenation in Loop" >>

PatternIssue(rule, file, index, line, p) ==
    CASE rule = "secret" ->
           Issue("security", "critical", "Hardcoded Secret Detected",
                 << "Potential hardcoded secret or credential found in source code" >>,
                 file, index, << Trim(line) >>)
      [] rule = "sql" ->
           Issue("security", "critical", "Potential SQL Injection Vulnerability",
                 << "SQL query appears to use string concatenation with user input" >>,
                 file, index, << Trim(line) >>)
      [] rule = "xss" ->
           Issue("security", "high", "Potential XSS Vulnerability",
                 << "Direct DOM manipulation detected that could allow XSS attacks" >>,
                 file, index, << Trim(line) >>)
      [] rule = "inefficient" ->
           Issue("performance", "medium",
                 inefficientTitles[p],
                 << "Operation can be optimized by combining operations" >>,
                 file, index, << Trim(line) >>)

(* The findings of one line: patterns.forEach(pattern => { if              *)
(* (pattern.test(line)) issues.push(...) }), ends[p] being what test left in *)
(* pattern p's lastIndex (0: no match).                                      *)
LineIssues(rule, file, i, ends) ==
    LET hits == SelectSeq([ p \in 1..Len(ends) |-> p ], LAMBDA p : ends[p] > 0)
    IN  [ h \in 1..Len(hits) |->
            PatternIssue(rule, file, i, file.content[i], hits[h]) ]

(* lines.forEach((line, index) => patterns.forEach(pattern => {              *)
(*     if (pattern.test(line)) issues.push(...) }))                          *)
(* One line (i, 1-based: the code's index + 1) of it: st.lastIndex holds     *)
(* each pattern object's lastIndex, which outlives the line.                 *)
TestLine(rule, file, i, st) ==
    LET spans == PatternsOf(rule, file.content[i])
        ends == [ p \in 1..Len(st.lastIndex) |->
                    RegExpTest(spans[p], st.lastIndex[p]) ]
    IN  [ lastIndex |-> ends,
          issues |-> st.issues \o LineIssues(rule, file, i, ends) ]

RECURSIVE TestLines(_, _, _, _, _)
(* lines.forEach over the lines lo..hi, in order, from the state st (the    *)
(* state after the first half is a value before the second half starts).   *)
TestLines(rule, file, lo, hi, st) ==
    IF lo > hi THEN st
    ELSE IF lo = hi THEN TestLine(rule, file, lo, st)
    ELSE LET mid == (lo + hi) \div 2
             first == TestLines(rule, file, lo, mid, st)
         IN  [ s \in { first } |-> TestLines(rule, file, mid + 1, hi, s) ][first]

TestEachLine(rule, file, lastIndex) ==
    TestLines(rule, file, 1, Len(file.content),
              [ lastIndex |-> lastIndex, issues |-> <<>> ]).issues

(* A rule's pattern objects as created: each with lastIndex 0. *)
FreshPatterns(rule) == [ p \in 1..Len(PatternsOf(rule, "")) |-> 0 ]

-----------------------------------------------------------------------------
(* SecurityAnalyzer. *)

checkHardcodedSecrets(file) ==
    TestEachLine("secret", file, FreshPatterns("secret"))

checkSQLInjection(file) ==
    IF file.language \in { "javascript", "typescript", "python", "php" }
    THEN TestEachLine("sql", file, FreshPatterns("sql"))
    ELSE <<>>

(* A checkXSS applied to the files of every language. *)
checkXSSUngated(file) == TestEachLine("xss", file, FreshPatterns("xss"))

checkXSS(file) ==
    IF file.language \in { "javascript", "typescript" }
    THEN TestEachLine("xss", file, FreshPatterns("xss"))
    ELSE <<>>

(* file.path.includes("package.json") || file.path.includes("requirements.txt") *)
(* over the paths of the model.                                                 *)
IsManifestPath(path) == path \in { "package.json", "requirements.txt" }

checkInsecureDependencies(file) ==
    IF IsManifestPath(file.path) /\ ContentIncludesRangeOperator(file)
    THEN << FileIssue("security", "medium", "Unpinned Dependencies",
                      << "Dependencies use version ranges instead of exact versions" >>,
                      file) >>
    ELSE <<>>

(* The four checks of a file with checkSQLInjection ahead of the others. *)
SecurityFileIssuesSQLFirst(file) ==
    checkSQLInjection(file) \o checkHardcodedSecrets(file) \o checkXSS(file)
        \o checkInsecureDependencies(file)

SecurityFileIssues(file) ==
    checkHardcodedSecrets(file) \o checkSQLInjection(file) \o checkXSS(file)
        \o checkInsecureDependencies(file)

SecurityAnalyzer_analyze(fs) ==
    Flatten([ k \in 1..Len(fs) |-> SecurityFileIssues(fs[k]) ])

-----------------------------------------------------------------------------
(* PerformanceAnalyzer. *)

(* The number of loopKeywords that hit a trimmed line. *)
LoopHits(trimmed) ==
    Cardinality({ k \in 1..Len(loopKeywordHits(trimmed)) :
                      loopKeywordHits(trimmed)[k] })

(* A checkNestedLoops that reports only levels above 3. *)
NestedLoopsLineAboveThree(file, i, st) ==
    LET trimmed == Trim(file.content[i])
        hits == LoopHits(trimmed)
        levels == SelectSeq([ h \in 1..hits |-> st.nestedLevel + h ],
                            LAMBDA level : level > 3)
        pushed == [ h \in 1..Len(levels) |->
                      Issue("performance", "high", "Deeply Nested Loops Detected",
                            << "Found ", levels[h], " levels of nested loops" >>,
                            file, i, << trimmed >>) ]
    IN  [ nestedLevel |-> IF CloseBraces(trimmed) > 0
                          THEN Max(0, st.nestedLevel + hits - 1)
                          ELSE st.nestedLevel + hits,
          issues |-> st.issues \o pushed ]

(* checkNestedLoops, one line: each keyword that hits the line raises        *)
(* nestedLevel by one and pushes a finding when that brings it to 3 or more; *)
(* then a line with "}" lowers nestedLevel by one, not below 0.              *)
NestedLoopsLine(file, i, st) ==
    LET trimmed == Trim(file.content[i])
        hits == LoopHits(trimmed)
        levels == SelectSeq([ h \in 1..hits |-> st.nestedLevel + h ],
                            LAMBDA level : level >= 3)
        pushed == [ h \in 1..Len(levels) |->
                      Issue("performance", "high", "Deeply Nested Loops Detected",
                            << "Found ", levels[h], " levels of nested loops" >>,
                            file, i, << trimmed >>) ]
    IN  [ nestedLevel |-> IF CloseBraces(trimmed) > 0
                          THEN Max(0, st.nestedLevel + hits - 1)
                          ELSE st.nestedLevel + hits,
          issues |-> st.issues \o pushed ]

RECURSIVE NestedLoopsLines(_, _, _, _)
(* lines.forEach over the lines lo..hi, in order, from the state st (the    *)
(* state after the first half is a value before the second half starts).   *)
NestedLoopsLines(file, lo, hi, st) ==
    IF lo > hi THEN st
    ELSE IF lo = hi THEN NestedLoopsLine(file, lo, st)
    ELSE LET mid == (lo + hi) \div 2
             first == NestedLoopsLines(file, lo, mid, st)
         IN  [ s \in { first } |-> NestedLoopsLines(file, mid + 1, hi, s) ][first]

checkNestedLoops(file) ==
    NestedLoopsLines(file, 1, Len(file.content),
                     [ nestedLevel |-> 0, issues |-> <<>> ]).issues

checkInefficientOperations(file) ==
    TestEachLine("inefficient", file, FreshPatterns("inefficient"))

(* A checkMemoryLeaks that looks for the removal call in the line itself. *)
MemoryLeakLineIssuesLineScoped(file, i) ==
    LET line == file.content[i]
    IN  (IF IncludesAddEventListener(line)
            /\ ~IncludesRemoveEventListener(line)
         THEN << Issue("performance", "medium",
                       "Potential Memory Leak: Event Listener",
                       << "Event listener added without corresponding cleanup" >>,
                       file, i, << Trim(line) >>) >>
         ELSE <<>>)
        \o
        (IF IncludesSetInterval(line)
            /\ ~IncludesClearInterval(line)
         THEN << Issue("performance", "high",
                       "Potential Memory Leak: Interval",
                       << "setInterval used without corresponding clearInterval" >>,
                       file, i, << Trim(line) >>) >>
         ELSE <<>>)

MemoryLeakLineIssues(file, i) ==
    LET line == file.content[i]
    IN  (IF IncludesAddEventListener(line)
            /\ ~ContentIncludesRemoveEventListener(file)
         THEN << Issue("performance", "medium",
                       "Potential Memory Leak: Event Listener",
                       << "Event listener added without corresponding cleanup" >>,
                       file, i, << Trim(line) >>) >>
         ELSE <<>>)
        \o
        (IF IncludesSetInterval(line)
            /\ ~ContentIncludesClearInterval(file)
         THEN << Issue("performance", "high",
                       "Potential Memory Leak: Interval",
                       << "setInterval used without corresponding clearInterval" >>,
                       file, i, << Trim(line) >>) >>
         ELSE <<>>)

checkMemoryLeaks(file) ==
    IF file.language \in { "javascript", "typescript" }
    THEN Flatten([ i \in 1..Len(file.content) |-> MemoryLeakLineIssues(file, i) ])
    ELSE <<>>

PerformanceFileIssues(file) ==
    checkNestedLoops(file) \o checkInefficientOperations(file)
        \o checkMemoryLeaks(file)

PerformanceAnalyzer_analyze(fs) ==
    Flatten([ k \in 1..Len(fs) |-> PerformanceFileIssues(fs[k]) ])

-----------------------------------------------------------------------------
(* ComplexityAnalyzer. *)

(* A checkCyclomaticComplexity that goes on counting at a declaration line. *)
CyclomaticLineKeepingCount(file, i, st) ==
    LET trimmed == Trim(file.content[i])
        decl == isFunctionDeclaration(trimmed)
    IN  [ currentFunction |-> IF decl THEN trimmed ELSE st.currentFunction,
          complexity |-> st.complexity + KeywordOccurrences(trimmed),
          functionStartLine |-> IF decl THEN i ELSE st.functionStartLine,
          issues |->
              IF decl /\ st.currentFunction # "" /\ st.complexity > 10
              THEN Append(st.issues,
                       Issue("complexity",
                             IF st.complexity > 20 THEN "high" ELSE "medium",
                             "High Cyclomatic Complexity",
                             << "Function has cyclomatic complexity of ",
                                st.complexity >>,
                             file, st.functionStartLine,
                             << st.currentFunction >>))
              ELSE st.issues ]

(* checkCyclomaticComplexity, one line.  currentFunction is "" (falsy)       *)
(* until the first declaration line.                                         *)
CyclomaticLine(file, i, st) ==
    LET trimmed == Trim(file.content[i])
        decl == isFunctionDeclaration(trimmed)
    IN  [ currentFunction |-> IF decl THEN trimmed ELSE st.currentFunction,
          complexity |-> (IF decl THEN 1 ELSE st.complexity)
                             + KeywordOccurrences(trimmed),
          functionStartLine |-> IF decl THEN i ELSE st.functionStartLine,
          issues |->
              IF decl /\ st.currentFunction # "" /\ st.complexity > 10
              THEN Append(st.issues,
                       Issue("complexity",
                             IF st.complexity > 20 THEN "high" ELSE "medium",
                             "High Cyclomatic Complexity",
                             << "Function has cyclomatic complexity of ",
                                st.complexity >>,
                             file, st.functionStartLine,
                             << st.currentFunction >>))
              ELSE st.issues ]

RECURSIVE CyclomaticLines(_, _, _, _)
(* lines.forEach over the lines lo..hi, in order, from the state st (the    *)
(* state after the first half is a value before the second half starts).   *)
CyclomaticLines(file, lo, hi, st) ==
    IF lo > hi THEN st
    ELSE IF lo = hi THEN CyclomaticLine(file, lo, st)
    ELSE LET mid == (lo + hi) \div 2
             first == CyclomaticLines(file, lo, mid, st)
         IN  [ s \in { first } |-> CyclomaticLines(file, mid + 1, hi, s) ][first]

checkCyclomaticComplexity(file) ==
    CyclomaticLines(file, 1, Len(file.content),
                    [ currentFunction |-> "", complexity |-> 1,
                      functionStartLine |-> 0, issues |-> <<>> ]).issues

(* A checkFunctionLength that never forgets a function whose braces closed. *)
FunctionLengthLineRemembering(file, i, st) ==
    LET trimmed == Trim(file.content[i])
        decl == isFunctionDeclaration(trimmed)
        currentFunction == IF decl THEN trimmed ELSE st.currentFunction
        counted == currentFunction # ""
        functionLength == (IF decl THEN 0 ELSE st.functionLength)
                              + (IF counted THEN 1 ELSE 0)
        braceCount == (IF decl THEN 0 ELSE st.braceCount)
                          + (IF counted
                             THEN OpenBraces(trimmed) - CloseBraces(trimmed)
                             ELSE 0)
    IN  [ currentFunction |-> currentFunction,
          functionStartLine |-> IF decl THEN i ELSE st.functionStartLine,
          functionLength |-> functionLength,
          braceCount |-> braceCount,
          issues |->
              IF decl /\ st.currentFunction # "" /\ st.functionLength > 50
              THEN Append(st.issues,
                       Issue("complexity",
                             IF st.functionLength > 100 THEN "high" ELSE "medium",
                             "Long Function",
                             << "Function is ", st.functionLength,
                                " lines long" >>,
                             file, st.functionStartLine,
                             << st.currentFunction >>))
              ELSE st.issues ]

(* checkFunctionLength, one line. *)
FunctionLengthLine(file, i, st) ==
    LET trimmed == Trim(file.content[i])
        decl == isFunctionDeclaration(trimmed)
        currentFunction == IF decl THEN trimmed ELSE st.currentFunction
        counted == currentFunction # ""
        functionLength == (IF decl THEN 0 ELSE st.functionLength)
                              + (IF counted THEN 1 ELSE 0)
        braceCount == (IF decl THEN 0 ELSE st.braceCount)
                          + (IF counted
                             THEN OpenBraces(trimmed) - CloseBraces(trimmed)
                             ELSE 0)
    IN  [ currentFunction |->
              IF counted /\ braceCount = 0 /\ functionLength > 1
              THEN "" ELSE currentFunction,
          functionStartLine |-> IF decl THEN i ELSE st.functionStartLine,
          functionLength |-> functionLength,
          braceCount |-> braceCount,
          issues |->
              IF decl /\ st.currentFunction # "" /\ st.functionLength > 50
              THEN Append(st.issues,
                       Issue("complexity",
                             IF st.functionLength > 100 THEN "high" ELSE "medium",
                             "Long Function",
                             << "Function is ", st.functionLength,
                                " lines long" >>,
                             file, st.functionStartLine,
                             << st.currentFunction >>))
              ELSE st.issues ]

RECURSIVE FunctionLengthLines(_, _, _, _)
(* lines.forEach over the lines lo..hi, in order, from the state st (the    *)
(* state after the first half is a value before the second half starts).   *)
FunctionLengthLines(file, lo, hi, st) ==
    IF lo > hi THEN st
    ELSE IF lo = hi THEN FunctionLengthLine(file, lo, st)
    ELSE LET mid == (lo + hi) \div 2
             first == FunctionLengthLines(file, lo, mid, st)
         IN  [ s \in { first } |-> FunctionLengthLines(file, mid + 1, hi, s) ][first]

(* A checkFunctionLength that also reports the function open at the end of *)
(* the file.                                                                *)
checkFunctionLengthAtEnd(file) ==
    LET st == FunctionLengthLines(file, 1, Len(file.content),
                                  [ currentFunction |-> "", functionStartLine |-> 0,
                                    functionLength |-> 0, braceCount |-> 0,
                                    issues |-> <<>> ])
    IN  IF st.currentFunction # "" /\ st.functionLength > 50
        THEN Append(st.issues,
                 Issue("complexity",
                       IF st.functionLength > 100 THEN "high" ELSE "medium",
                       "Long Function",
                       << "Function is ", st.functionLength, " lines long" >>,
                       file, st.functionStartLine, << st.currentFunction >>))
        ELSE st.issues

checkFunctionLength(file) ==
    FunctionLengthLines(file, 1, Len(file.content),
                        [ currentFunction |-> "", functionStartLine |-> 0,
                          functionLength |-> 0, braceCount |-> 0,
                          issues |-> <<>> ]).issues

(* lines.slice(i, i + 5).map(trim).filter(nonempty, not a comment), for the *)
(* window that starts at line i (1-based); join("\n") is one-to-one on such *)
(* lists, so the list stands for the joined block (and, followed by "...",  *)
(* for the snippet cut from it).                                            *)
Block(file, i) ==
    SelectSeq([ j \in 1..5 |-> Trim(file.content[i + j - 1]) ],
              LAMBDA l : Length(l) > 0 /\ ~StartsComment(l))

(* block.length of the joined block: the lines and the "\n" between them. *)
BlockLength(block) ==
    IF block = <<>> THEN 0
    ELSE Sum([ j \in 1..Len(block) |-> Length(block[j]) ]) + Len(block) - 1

(* blocks.get(block): the start lines of the windows recorded under a block. *)
LineNumbers(file, block) ==
    { i \in 1..(Len(file.content) - 4) :
          Block(file, i) = block /\ BlockLength(block) > 50 }

(* A checkCodeDuplication whose findings have the category duplication. *)
DuplicationAtOwnCategory(file, i) ==
    LET block == Block(file, i)
        lineNumbers == LineNumbers(file, block)
    IN  IF lineNumbers # {} /\ (\A j \in lineNumbers : i <= j)
           /\ Cardinality(lineNumbers) > 1
        THEN << Issue("duplication", "medium", "Code Duplication Detected",
                      << "Similar code block found in ",
                         Cardinality(lineNumbers), " locations" >>,
                      file, i, block \o << "..." >>) >>
        ELSE <<>>

(* blocks.forEach in insertion order: a block is visited where its first    *)
(* window starts, and reported when it has more than one window.            *)
DuplicationAt(file, i) ==
    LET block == Block(file, i)
        lineNumbers == LineNumbers(file, block)
    IN  IF lineNumbers # {} /\ (\A j \in lineNumbers : i <= j)
           /\ Cardinality(lineNumbers) > 1
        THEN << Issue("complexity", "medium", "Code Duplication Detected",
                      << "Similar code block found in ",
                         Cardinality(lineNumbers), " locations" >>,
                      file, i, block \o << "..." >>) >>
        ELSE <<>>

checkCodeDuplication(file) ==
    Flatten([ i \in 1..Max(0, Len(file.content) - 4) |-> DuplicationAt(file, i) ])

ComplexityFileIssues(file) ==
    checkCyclomaticComplexity(file) \o checkFunctionLength(file)
        \o checkCodeDuplication(file)

ComplexityAnalyzer_analyze(fs) ==
    Flatten([ k \in 1..Len(fs) |-> ComplexityFileIssues(fs[k]) ])

-----------------------------------------------------------------------------
(* calculateMetrics. *)

baseScore == 100

(* A weight table that is not monotone in severity: medium outweighs high. *)
severityWeightsSwapped(severity) ==
    CASE severity = "critical" -> 10
      [] severity = "high" -> 2
      [] severity = "medium" -> 5
      [] severity = "low" -> 1

(* severityWeights[severity], for the severities the table has. *)
severityWeights(severity) ==
    CASE severity = "critical" -> 10
      [] severity = "high" -> 5
      [] severity = "medium" -> 2
      [] severity = "low" -> 1

RECURSIVE ReduceWeight(_, _)
(* issues.reduce((sum, issue) => sum + severityWeights[issue.severity], sum) *)
ReduceWeight(issues, sum) ==
    IF issues = <<>> THEN sum
    ELSE ReduceWeight(Tail(issues), sum + severityWeights(Head(issues).severity))

(* issues.filter(i => i.category === category) *)
OfCategory(issues, category) ==
    SelectSeq(issues, LAMBDA i : i.category = category)

(* Math.floor(x) in place of Math.round(x). *)
MathFloor(twice) == twice \div 2

(* Math.round(x) for x = twice / 2 >= 0: the nearest integer, a half going up. *)
MathRound(twice) == (twice + 1) \div 2

(* 100 - total without the Math.max(0, ...) around it. *)
codeQualityScoreUnclamped(issues) ==
    2 * baseScore - 2 * ReduceWeight(issues, 0)

(* The three scores before rounding, each as twice its value (securityWeight *)
(* * 2 and complexityWeight * 1.5 are then whole numbers).                   *)
codeQualityScore2(issues) ==
    Max(0, 2 * baseScore - 2 * ReduceWeight(issues, 0))

securityScore2(issues) ==
    Max(0, 2 * baseScore - 4 * ReduceWeight(OfCategory(issues, "security"), 0))

maintainabilityScore2(issues) ==
    Max(0, 2 * baseScore - 3 * ReduceWeight(OfCategory(issues, "complexity"), 0))

calculateMetrics(issues) ==
    [ codeQualityScore |-> MathRound(codeQualityScore2(issues)),
      securityScore |-> MathRound(securityScore2(issues)),
      maintainabilityScore |-> MathRound(maintainabilityScore2(issues)) ]

-----------------------------------------------------------------------------
(* The advisory response and its parsing in enhanceWithAI.                   *)
(*                                                                           *)
(* A JSON value is a record: an object is the record of its members, null is *)
(* JsonNull, an array is [array |-> its elements].  The response text is a   *)
(* list of tokens: the brackets and the comma of JSON, a JSON value written  *)
(* out, or a stretch of prose (which is no JSON).                            *)

JsonNull == [ null |-> TRUE ]

aiTesting ==
    [ category |-> "testing", severity |-> "low", title |-> "Missing unit tests",
      description |-> << "No tests cover the request handlers" >>,
      location |-> [ file |-> "app.js" ] ]

aiSecurity ==
    [ category |-> "security", severity |-> "critical",
      title |-> "Secrets shared across modules",
      description |-> << "Credentials are passed between tightly coupled modules" >>,
      location |-> [ file |-> "app.js" ] ]

aiNoSeverity ==
    [ category |-> "documentation", title |-> "Undocumented API" ]

(* The elements an advisory array is made of in the model. *)
AiElements == { aiTesting, aiSecurity, aiNoSeverity, JsonNull }

Open == [ t |-> "[" ]
Close == [ t |-> "]" ]
Comma == [ t |-> "," ]
Prose == [ t |-> "prose" ]
Value(v) == [ t |-> "value", v |-> v ]

RECURSIVE Stringify(_)
(* The text of an array of values: "[", the values with commas between, "]". *)
Stringify(elements) ==
    IF elements = <<>> THEN << Open, Close >>
    ELSE IF Len(elements) = 1 THEN << Open, Value(elements[1]), Close >>
    ELSE << Open, Value(elements[1]), Comma >> \o Tail(Stringify(Tail(elements)))

(* content.match(/\[[\s\S]*\]/): from the first "[" to the last "]" after   *)
(* it; <<>> when there is no such pair (match returns null).                 *)
MatchArray(content) ==
    LET opens == { i \in 1..Len(content) : content[i].t = "[" }
        first == CHOOSE i \in opens : \A j \in opens : i <= j
        closes == { i \in 1..Len(content) : content[i].t = "]" /\ i > first }
        last == CHOOSE i \in closes : \A j \in closes : i >= j
    IN  IF opens = {} THEN <<>>
        ELSE IF closes = {} THEN <<>>
        ELSE SubSeq(content, first, last)

SyntaxError == [ ok |-> FALSE ]

RECURSIVE ParseValue(_, _)
RECURSIVE ParseElements(_, _, _)
(* JSON.parse, the value that starts at token i:                             *)
(* [ok |-> TRUE, value |-> v, next |-> the token after it] or SyntaxError.   *)
ParseValue(text, i) ==
    IF i > Len(text) THEN SyntaxError
    ELSE IF text[i].t = "value"
         THEN [ ok |-> TRUE, value |-> text[i].v, next |-> i + 1 ]
    ELSE IF text[i].t = "["
         THEN IF i + 1 <= Len(text) /\ text[i + 1].t = "]"
              THEN [ ok |-> TRUE, value |-> [ array |-> <<>> ], next |-> i + 2 ]
              ELSE ParseElements(text, i + 1, <<>>)
    ELSE SyntaxError

(* The elements of an array from token i on, after those in done. *)
ParseElements(text, i, done) ==
    LET v == ParseValue(text, i)
    IN  IF ~v.ok THEN SyntaxError
        ELSE IF v.next > Len(text) THEN SyntaxError
        ELSE IF text[v.next].t = ","
             THEN ParseElements(text, v.next + 1, Append(done, v.value))
        ELSE IF text[v.next].t = "]"
             THEN [ ok |-> TRUE, value |-> [ array |-> Append(done, v.value) ],
                    next |-> v.next + 1 ]
        ELSE SyntaxError

(* JSON.parse(text): one value and nothing after it. *)
JSONparse(text) ==
    LET v == ParseValue(text, 1)
    IN  IF v.ok /\ v.next = Len(text) + 1 THEN v ELSE SyntaxError

(* How the call client.chat.completions.create(...) can settle. *)
Rejected == [ kind |-> "rejected" ]
NoContent == [ kind |-> "fulfilled", content |-> <<>> ]
Fulfilled(content) == [ kind |-> "fulfilled", content |-> content ]

(* An enhanceWithAI whose catch block returns an empty list. *)
enhanceWithAIDiscarding(fs, issues, settled) ==
    IF settled.kind = "rejected" THEN <<>>
    ELSE IF settled.content = <<>> THEN issues
    ELSE LET jsonMatch == MatchArray(settled.content)
             parsed == JSONparse(jsonMatch)
         IN  IF jsonMatch = <<>> THEN issues
             ELSE IF ~parsed.ok THEN <<>>
             ELSE issues \o parsed.value.array

(* An enhanceWithAI that returns [...aiIssues, ...issues]. *)
enhanceWithAIPrepending(fs, issues, settled) ==
    IF settled.kind = "rejected" THEN issues
    ELSE IF settled.content = <<>> THEN issues
    ELSE LET jsonMatch == MatchArray(settled.content)
             parsed == JSONparse(jsonMatch)
         IN  IF jsonMatch = <<>> THEN issues
             ELSE IF ~parsed.ok THEN issues
             ELSE parsed.value.array \o issues

(* enhanceWithAI(files, issues) once the call has settled with settled.  A   *)
(* missing content and the empty text are both falsy.                        *)
enhanceWithAI(fs, issues, settled) ==
    IF settled.kind = "rejected" THEN issues
    ELSE IF settled.content = <<>> THEN issues
    ELSE LET jsonMatch == MatchArray(settled.content)
             parsed == JSONparse(jsonMatch)
         IN  IF jsonMatch = <<>> THEN issues
             ELSE IF ~parsed.ok THEN issues
             ELSE issues \o parsed.value.array

-----------------------------------------------------------------------------
(* analyzeCode. *)

(* i.severity === "critical"; reading a property of null throws a TypeError, *)
(* of any other value without the member gives undefined.                    *)
ReadThrows(i) == DOMAIN i = DOMAIN JsonNull

IsCritical(i) == "severity" \in DOMAIN i /\ i.severity = "critical"

RECURSIVE Distinct(_, _)
(* [...new Set(values)]: the distinct values in order of first occurrence. *)
Distinct(values, seen) ==
    IF values = <<>> THEN <<>>
    ELSE IF Head(values) \in seen THEN Distinct(Tail(values), seen)
    ELSE << Head(values) >> \o Distinct(Tail(values), seen \cup { Head(values) })

(* A result whose summary counts the list the metrics are computed from. *)
AnalysisResultCountingScored(fs, enhancedIssues, scoredIssues) ==
    [ summary |->
          [ totalFiles |-> Len(fs),
            totalIssues |-> Len(scoredIssues),
            criticalIssues |-> Len(SelectSeq(scoredIssues, IsCritical)),
            languages |-> Distinct([ k \in 1..Len(fs) |-> fs[k].language ], {}) ],
      issues |-> enhancedIssues,
      metrics |-> calculateMetrics(scoredIssues) ]

(* The value analyzeCode resolves with (analysisDate left out), given the    *)
(* list enhanceWithAI returned and the list the metrics are computed from.   *)
AnalysisResult(fs, enhancedIssues, scoredIssues) ==
    [ summary |->
          [ totalFiles |-> Len(fs),
            totalIssues |-> Len(enhancedIssues),
            criticalIssues |-> Len(SelectSeq(enhancedIssues, IsCritical)),
            languages |-> Distinct([ k \in 1..Len(fs) |-> fs[k].language ], {}) ],
      issues |-> enhancedIssues,
      metrics |-> calculateMetrics(scoredIssues) ]

NoResult == [ none |-> TRUE ]

NotSettled == [ kind |-> "pending" ]

(* file.content.split("\n") throws a TypeError when the content is no       *)
(* string; NotAString stands for such a content (a string splits into at     *)
(* least one line).                                                          *)
NotAString == <<>>

SplitThrows(file) == file.content = NotAString

(* An analyzeCode that asks the advisory service only about findings: with   *)
(* none, it goes on without the request.                                     *)
AnalyzeCodeStartSkipping ==
    /\ pc = "idle"
    /\ securityIssues' = SecurityAnalyzer_analyze(files)
    /\ performanceIssues' = PerformanceAnalyzer_analyze(files)
    /\ complexityIssues' = ComplexityAnalyzer_analyze(files)
    /\ allIssues' = securityIssues' \o performanceIssues' \o complexityIssues'
    /\ calls' = IF allIssues' = <<>> THEN calls ELSE calls + 1
    /\ pc' = "awaiting"
    /\ UNCHANGED << files, response, result, findings, metrics, github,
                    server >>

(* analyzeCode up to the await of enhanceWithAI's call: the three analyzers, *)
(* the concatenation, and the one request to the advisory service.  Nothing  *)
(* in the analyzers or in analyzeCode catches what the scan of a file        *)
(* throws, so the promise of analyzeCode rejects with it.                    *)
AnalyzeCodeStart ==
    /\ pc = "idle"
    /\ IF \E k \in 1..Len(files) : SplitThrows(files[k])
       THEN /\ pc' = "rejected"
            /\ UNCHANGED << securityIssues, performanceIssues,
                            complexityIssues, allIssues, calls >>
       ELSE /\ securityIssues' = SecurityAnalyzer_analyze(files)
            /\ performanceIssues' = PerformanceAnalyzer_analyze(files)
            /\ complexityIssues' = ComplexityAnalyzer_analyze(files)
            /\ allIssues' = securityIssues' \o performanceIssues'
                                \o complexityIssues'
            /\ calls' = calls + 1
            /\ pc' = "awaiting"
    /\ UNCHANGED << files, response, result, findings, metrics, github,
                    server >>

(* The call settles with settled; enhanceWithAI returns and analyzeCode runs *)
(* to its end: it resolves with the result, or rejects when building the     *)
(* summary throws.                                                           *)
AnalyzeCodeResume(settled) ==
    /\ pc = "awaiting"
    /\ response' = settled
    /\ LET enhancedIssues == enhanceWithAI(files, allIssues, settled)
       IN  IF \E k \in 1..Len(enhancedIssues) : ReadThrows(enhancedIssues[k])
           THEN pc' = "rejected" /\ result' = NoResult
           ELSE /\ pc' = "resolved"
                /\ result' = AnalysisResult(files, enhancedIssues, allIssues)
    /\ UNCHANGED << files, securityIssues, performanceIssues, complexityIssues,
                    allIssues, calls, findings, metrics, github,
                    server >>

-----------------------------------------------------------------------------
(* Inputs. *)

(* The files a run can be given: their paths are distinct. *)
FileTags ==
    { [ path |-> "app.js", language |-> "javascript" ],
      [ path |-> "db.py", language |-> "python" ],
      [ path |-> "package.json", language |-> "json" ] }

(* Line texts of the runs of analyzeCode. *)
PipelineLines ==
    { "let total = 0;",
      "db.query(\"SELECT * FROM t WHERE password = 'abc' AND api_key = 'abcdefgh' AND secret = 'abcdefgh' AND token = 'abcdefgh' AND id = \" + id + \"\");",
      "rows.filter(ok).map(fmt).forEach(send);",
      "function route(a, b) { if (a && b || a ? b : a && b ? a || b : b && a ? a : b && a || b) { return a && b || a ? b : a && b ? a || b : b && a ? a : b && a || b; } }" }

(* Line texts of the runs of the analyzers alone. *)
AnalyzerLines ==
    { "let total = 0;",
      "const password = \"hardcoded123\";",
      "db.query(\"SELECT * FROM users WHERE token = 'abcdefgh' AND id = \" + id + \"\");",
      "el.innerHTML = userInput;",
      "items.forEach(item => {",
      "xs.map(f).map(g);",
      "}",
      "function pick(a, b) { return a && b || a ? b : a && b ? a || b : b && a ? a : b && a || b; }" }

(* The line counts of the files of a run: each at least 1, MaxLines in all. *)
Shapes ==
    { ns \in UNION { [ 1..f -> 1..MaxLines ] : f \in 0..MaxLines } :
          Sum(ns) <= MaxLines }

(* stats.size of a file of these lines, joined by "\n". *)
SizeOf(content) ==
    Sum([ i \in 1..Len(content) |-> Length(content[i]) ]) + Len(content) - 1

(* The files with line counts ns, tags tags and the lines all, in order. *)
MakeFiles(ns, tags, all) ==
    [ k \in 1..Len(ns) |->
        LET content == SubSeq(all, Sum(SubSeq(ns, 1, k - 1)) + 1,
                              Sum(SubSeq(ns, 1, k)))
        IN  [ path |-> tags[k].path, language |-> tags[k].language,
              content |-> content, size |-> SizeOf(content) ] ]

InputFiles(lines) ==
    \E ns \in Shapes :
        \E tags \in [ 1..Len(ns) -> FileTags ] :
            /\ \A j, k \in 1..Len(ns) : tags[j] = tags[k] => j = k
            /\ \E all \in [ 1..Sum(ns) -> lines ] :
                   files = MakeFiles(ns, tags, all)

(* The arrays an advisory response can carry. *)
AiLists == UNION { [ 1..n -> AiElements ] : n \in 0..MaxAiIssues }

(* Response texts: an array alone or inside prose, and texts that are no     *)
(* array, hold no bracket pair, or hold brackets that do not parse.          *)
Contents ==
    { Stringify(l) : l \in AiLists }
    \cup { << Prose >> \o Stringify(l) \o << Prose >> : l \in AiLists }
    \cup { << Prose >>,
           << Close, Prose, Open >>,
           << Prose, Open, Value(aiTesting) >>,
           << Open, Prose, Close >>,
           << Open, Value(aiTesting), Comma, Close >>,
           << Open, Value(aiTesting), Value(aiSecurity), Close >>,
           Stringify(<< aiTesting >>) \o << Prose >> \o Stringify(<< aiSecurity >>),
           << Open >> \o Stringify(<< aiTesting >>) \o << Close >> }

Settlements == { Rejected, NoContent } \cup { Fulfilled(c) : c \in Contents }

-----------------------------------------------------------------------------
(* Specifications. *)

(* No analyzeGitHubRepo in this run. *)
NoRepository == [ none |-> TRUE ]

(* No HTTP server in this run. *)
NoServer == [ none |-> TRUE ]

Idle ==
    /\ pc = "idle"
    /\ securityIssues = <<>>
    /\ performanceIssues = <<>>
    /\ complexityIssues = <<>>
    /\ allIssues = <<>>
    /\ calls = 0
    /\ response = NotSettled
    /\ result = NoResult
    /\ github = NoRepository
    /\ server = NoServer

(* A run of analyzeCode. *)
Init ==
    /\ InputFiles(PipelineLines)
    /\ Idle
    /\ findings = <<>>
    /\ metrics = NoResult

Next ==
    \/ AnalyzeCodeStart
    \/ \E settled \in Settlements : AnalyzeCodeResume(settled)

Spec == Init /\ [][Next]_vars

(* The event loop runs the code that is ready to run; nothing makes the      *)
(* advisory service answer.                                                  *)
FairSpec == Spec /\ WF_vars(AnalyzeCodeStart)

(* The three analyzers on their own, over more kinds of lines. *)
InitAnalyzers ==
    /\ InputFiles(AnalyzerLines)
    /\ Idle
    /\ findings = <<>>
    /\ metrics = NoResult

AnalyzerSpec == InitAnalyzers /\ [][AnalyzeCodeStart]_vars

-----------------------------------------------------------------------------
(* calculateMetrics called on its own. *)

(* The severities from the least to the most severe. *)
SeverityRank(severity) ==
    CASE severity = "low" -> 1
      [] severity = "medium" -> 2
      [] severity = "high" -> 3
      [] severity = "critical" -> 4

ScoredCategories == { "security", "complexity", "testing" }

Finding(category, severity) ==
    Issue(category, severity, "Finding", << "A finding" >>,
          [ path |-> "app.js" ], 1, << "let total = 0;" >>)

Findings ==
    { Finding(category, severity) :
          category \in ScoredCategories, severity \in Severities }

Repeat(finding, n) == [ k \in 1..n |-> finding ]

(* The lists scored: a run of one finding followed by a run of another. *)
FindingLists ==
    { Repeat(f1, n1) \o Repeat(f2, n2) :
          f1 \in Findings, f2 \in Findings,
          n1 \in 0..MaxRepeat, n2 \in 0..MaxRepeat }

InitScore ==
    /\ files = <<>>
    /\ securityIssues = <<>>
    /\ performanceIssues = <<>>
    /\ complexityIssues = <<>>
    /\ allIssues = <<>>
    /\ calls = 0
    /\ response = NotSettled
    /\ result = NoResult
    /\ github = NoRepository
    /\ server = NoServer
    /\ pc = "unscored"
    /\ findings \in FindingLists
    /\ metrics = NoResult

unscoredVars ==
    << files, securityIssues, performanceIssues, complexityIssues, allIssues,
       calls, response, result, github, server >>

(* metrics = calculateMetrics(findings) *)
Score ==
    /\ pc = "unscored"
    /\ metrics' = calculateMetrics(findings)
    /\ pc' = "scored"
    /\ UNCHANGED << findings, unscoredVars >>

(* The same list with the i-th finding made more severe, scored again. *)
RaiseSeverity(i, severity) ==
    /\ pc = "scored"
    /\ i \in 1..Len(findings)
    /\ SeverityRank(severity) > SeverityRank(findings[i].severity)
    /\ findings' = [ findings EXCEPT ![i].severity = severity ]
    /\ metrics' = calculateMetrics(findings')
    /\ pc' = "rescored"
    /\ UNCHANGED unscoredVars

(* The same list with one more finding at its end, scored again. *)
AppendFinding(finding) ==
    /\ pc = "scored"
    /\ findings' = Append(findings, finding)
    /\ metrics' = calculateMetrics(findings')
    /\ pc' = "rescored"
    /\ UNCHANGED unscoredVars

ScoreNext ==
    \/ Score
    \/ \E i \in 1..(2 * MaxRepeat) : \E severity \in Severities :
           RaiseSeverity(i, severity)
    \/ \E finding \in Findings : AppendFinding(finding)

ScoreSpec == InitScore /\ [][ScoreNext]_vars

-----------------------------------------------------------------------------
(* The analyzers on longer files made of given parts. *)

(* All the sequences of at most n of the given lines. *)
UpTo(n, lines) == UNION { [ 1..m -> lines ] : m \in 0..n }

(* A function of n body lines, closed by a "}" line or left open, followed  *)
(* by the declaration of another function or by nothing.                    *)
FunctionContents ==
    { << "function handle(req) {" >> \o [ b \in 1..n |-> "let total = 0;" ]
          \o closing \o following :
          n \in 0..MaxBodyLines,
          closing \in { <<>>, << "}" >> },
          following \in { <<>>, << "function handle(req) {", "}" >> } }

(* A block of five lines; joined it is longer than 50 characters. *)
RepeatedBlock ==
    << "function handle(req) {", "el.innerHTML = userInput;",
       "xs.map(f).map(g);", "const password = \"hardcoded123\";", "}" >>

PadLines == { "", "// TODO: tidy up", "let total = 0;" }

(* The block twice, with other lines before, between and after. *)
DuplicationContents ==
    { before \o RepeatedBlock \o between \o RepeatedBlock \o after :
          before \in UpTo(MaxPad, PadLines),
          between \in UpTo(MaxPad, PadLines),
          after \in UpTo(MaxPad, PadLines) }

LoopLines ==
    { "for (let i = 0; i < n; i++) {", "items.forEach(item => {",
      "xs.map(f).map(g);" }

(* Three loop lines, with or without a line between them, after other lines. *)
LoopContents ==
    { before \o << loops[1] >> \o between \o << loops[2] >> \o between
          \o << loops[3] >> :
          before \in UpTo(MaxPad + 1, { "}", "for (let i = 0; i < n; i++) {",
                                        "let total = 0;" }),
          loops \in [ 1..3 -> LoopLines ],
          between \in UpTo(MaxPad, { "let total = 0;" }) }

(* A function of n loop lines, after loop lines or nothing, followed by      *)
(* nothing, by another function, or by two more.                            *)
BranchContents ==
    { [ b \in 1..m |-> "for (let i = 0; i < n; i++) {" ]
          \o << header >> \o [ b \in 1..n |-> "for (let i = 0; i < n; i++) {" ]
          \o following :
          m \in { 0, MaxBranches },
          header \in { "function handle(req) {",
                       "function pick(a, b) { return a && b || a ? b : a && b ? a || b : b && a ? a : b && a || b; }" },
          n \in 0..MaxBranches,
          following \in { <<>>,
                          << "function handle(req) {", "}" >>,
                          << "function handle(req) {",
                             "for (let i = 0; i < n; i++) {",
                             "function handle(req) {" >> } }

ShapedContents ==
    FunctionContents \cup DuplicationContents \cup LoopContents
        \cup BranchContents

InitShaped ==
    /\ \E content \in ShapedContents :
           files = << [ path |-> "app.js", language |-> "javascript",
                        content |-> content, size |-> SizeOf(content) ] >>
    /\ Idle
    /\ findings = <<>>
    /\ metrics = NoResult

ShapedSpec == InitShaped /\ [][AnalyzeCodeStart]_vars


-----------------------------------------------------------------------------
(* Runs of analyzeCode on files one of which has a content that is no       *)
(* string (the type CodeFile is erased at run time).                        *)
InitUntyped ==
    /\ \E ns \in Shapes :
           \E tags \in [ 1..Len(ns) -> FileTags ] :
               /\ \A j, k \in 1..Len(ns) : tags[j] = tags[k] => j = k
               /\ \E all \in [ 1..Sum(ns) -> AnalyzerLines ] :
                      \E broken \in 1..Len(ns) :
                          files = [ MakeFiles(ns, tags, all)
                                        EXCEPT ![broken].content = NotAString ]
    /\ Idle
    /\ findings = <<>>
    /\ metrics = NoResult

UntypedSpec == InitUntyped /\ [][AnalyzeCodeStart]_vars

-----------------------------------------------------------------------------
(* GitHubAnalyzer.                                                           *)
(*                                                                           *)
(* A url is the sequence of its parts between slashes, so that               *)
(* "https://github.com/acme/widgets" is <<"https:", "", "github.com",        *)
(* "acme", "widgets">>.  What the string operations find in a part is        *)
(* tabulated per text.                                                       *)

(* part.trimStart() and part.trimEnd() *)
TrimStart(part) == IF part = " acme" THEN "acme" ELSE part

TrimEnd(part) == IF part = "widgets " THEN "widgets" ELSE part

(* url.trim() *)
TrimUrl(url) ==
    IF url = <<>> THEN url
    ELSE LET started == [ url EXCEPT ![1] = TrimStart(url[1]) ]
         IN  [ started EXCEPT ![Len(url)] = TrimEnd(started[Len(url)]) ]

(* part.startsWith("git@github.com:") and what follows the prefix *)
StartsWithSSH(part) == part = "git@github.com:acme"

AfterSSH(part) == IF part = "git@github.com:acme" THEN "acme" ELSE part

(* part.includes(".git") and part.replace(".git", "") *)
IncludesDotGit(part) == part = "widgets.git"

ReplaceDotGit(part) == IF part = "widgets.git" THEN "widgets" ELSE part

(* url.replace(".git", ""): the first occurrence is removed. *)
ReplaceFirstDotGit(url) ==
    LET at == { k \in 1..Len(url) : IncludesDotGit(url[k]) }
    IN  IF at = {} THEN url
        ELSE LET first == CHOOSE k \in at : \A j \in at : k <= j
             IN  [ url EXCEPT ![first] = ReplaceDotGit(url[first]) ]

StartsWithHttp(part) == part \in { "https:", "http:" }

IncludesSpace(part) == part \in { " acme", "widgets ", "my widgets" }

EndsWithGitHubCom(part) == part = "github.com"

GitHubPrefix == << "https:", "", "github.com" >>

(* cleanUrl of parseGitHubUrl before the regular expression is applied. *)
CleanUrl(url) ==
    LET trimmed == TrimUrl(url)
        fromSSH ==
            IF trimmed # <<>> /\ StartsWithSSH(trimmed[1])
            THEN ReplaceFirstDotGit(GitHubPrefix \o << AfterSSH(trimmed[1]) >>
                                        \o Tail(trimmed))
            ELSE trimmed
    IN  IF /\ ~(fromSSH # <<>> /\ StartsWithHttp(fromSSH[1]))
           /\ Len(fromSSH) >= 2
           /\ \A k \in 1..Len(fromSSH) : ~IncludesSpace(fromSSH[k])
        THEN GitHubPrefix \o fromSSH
        ELSE fromSSH

(* Where /github\.com\/([^\/]+)\/([^\/]+)(?:\/tree\/([^\/]+))?/ can match:  *)
(* a part ending in github.com followed by two parts that are not empty.    *)
MatchStarts(url) ==
    { g \in 1..(Len(url) - 2) :
          EndsWithGitHubCom(url[g]) /\ url[g + 1] # "" /\ url[g + 2] # "" }

InvalidUrl == [ error |-> "Invalid GitHub URL format" ]

(* parseGitHubUrl(url): the repoInfo, or InvalidUrl when it throws. *)
parseGitHubUrl(url) ==
    LET cleanUrl == CleanUrl(url)
    IN  IF MatchStarts(cleanUrl) = {} THEN InvalidUrl
        ELSE LET g == CHOOSE k \in MatchStarts(cleanUrl) :
                          \A j \in MatchStarts(cleanUrl) : k <= j
                 named == /\ Len(cleanUrl) >= g + 4
                          /\ cleanUrl[g + 3] = "tree"
                          /\ cleanUrl[g + 4] # ""
             IN  [ owner |-> TrimEnd(TrimStart(cleanUrl[g + 1])),
                   repo |-> TrimEnd(TrimStart(ReplaceDotGit(cleanUrl[g + 2]))),
                   branch |-> IF named THEN cleanUrl[g + 4] ELSE "main" ]

(* path.extname(filePath) and supportedExtensions[ext] of the paths of the  *)
(* model; NoLanguage is undefined.                                          *)
extname(path) ==
    CASE path = "app.js" -> ".js"
      [] path = "db.py" -> ".py"
      [] path = "README.md" -> ".md"
      [] path = "package.json" -> ".json"

NoLanguage == "undefined"

supportedExtensions(ext) ==
    CASE ext = ".js" -> "javascript"
      [] ext = ".py" -> "python"
      [] OTHER -> NoLanguage

RECURSIVE parseDirectory(_)
(* parseDirectory(directoryPath), given the files glob found there. *)
parseDirectory(foundFiles) ==
    IF foundFiles = <<>> THEN <<>>
    ELSE LET filePath == Head(foundFiles)
             language == supportedExtensions(extname(filePath.path))
         IN  IF language = NoLanguage \/ filePath.size > 1024 * 1024
             THEN parseDirectory(Tail(foundFiles))
             ELSE << [ path |-> filePath.path, content |-> filePath.content,
                       language |-> language, size |-> filePath.size ] >>
                      \o parseDirectory(Tail(foundFiles))

Branches == { "main", "dev", "master" }

(* The files of acme/widgets on each of its branches. *)
TreeOf(branch) ==
    LET content ==
            CASE branch = "main" -> << "let total = 0;" >>
              [] branch = "dev" -> << "el.innerHTML = userInput;", "}" >>
              [] branch = "master" -> << "xs.map(f).map(g);" >>
    IN  << [ path |-> "README.md", content |-> << "let total = 0;" >>,
             size |-> SizeOf(<< "let total = 0;" >>) ],
           [ path |-> "app.js", content |-> content, size |-> SizeOf(content) ] >>

(* The repository acme/widgets as github.com serves it: its branches and    *)
(* the one its HEAD points to.                                              *)
Remotes ==
    { [ branches |-> bs, HEAD |-> b ] :
          bs \in SUBSET Branches, b \in Branches }

(* Whether github.com serves a repository under this clone url. *)
Hosted(repoInfo) == repoInfo.owner = "acme" /\ repoInfo.repo = "widgets"

(* The urls handed to analyzeGitHubRepo. *)
Urls ==
    LET Suffixes ==
            { <<>>, << "" >>, << "tree" >>, << "blob", "dev" >>, << "issues" >> }
            \cup { << "tree", b >> : b \in Branches }
    IN
    { prefix \o << owner, repo >> \o suffix :
          prefix \in { GitHubPrefix, <<>>, << "https:", "", "gitlab.com" >> },
          owner \in { "acme", " acme" },
          repo \in { "widgets", "widgets.git", "gadgets" },
          suffix \in Suffixes }
    \cup { << "git@github.com:acme", "widgets.git" >>,
           << "git@github.com:acme", "widgets" >>,
           << "acme", "widgets " >>,
           << "acme", "my widgets" >>,
           GitHubPrefix \o << "acme", "my widgets" >>,
           << "widgets" >>,
           GitHubPrefix,
           GitHubPrefix \o << "", "widgets" >> }

InitGitHub ==
    /\ files = <<>>
    /\ securityIssues = <<>>
    /\ performanceIssues = <<>>
    /\ complexityIssues = <<>>
    /\ allIssues = <<>>
    /\ calls = 0
    /\ response = NotSettled
    /\ result = NoResult
    /\ findings = <<>>
    /\ metrics = NoResult
    /\ server = NoServer
    /\ pc = "github"
    /\ \E url \in Urls : \E remote \in Remotes :
           /\ remote.HEAD \in remote.branches
           /\ github = [ url |-> url, remote |-> remote,
                         repoInfo |-> NoRepository,
                         checkedOut |-> NoRepository ]

(* analyzeGitHubRepo(url): files is what it returns as files.  git.clone is  *)
(* given the clone url and the target path and nothing else, so the clone    *)
(* has the branch checked out that the remote's HEAD points to.              *)
AnalyzeGitHubRepo ==
    /\ pc = "github"
    /\ LET repoInfo == parseGitHubUrl(github.url)
       IN  IF repoInfo = InvalidUrl
           THEN /\ pc' = "rejected"
                /\ UNCHANGED << files, github >>
           ELSE IF ~Hosted(repoInfo)
           THEN /\ pc' = "rejected"
                /\ github' = [ github EXCEPT !.repoInfo = repoInfo ]
                /\ UNCHANGED files
           ELSE /\ pc' = "cloned"
                /\ github' = [ github EXCEPT !.repoInfo = repoInfo,
                                             !.checkedOut = github.remote.HEAD ]
                /\ files' = parseDirectory(TreeOf(github.remote.HEAD))
    /\ UNCHANGED << securityIssues, performanceIssues, complexityIssues,
                    allIssues, calls, response, result, findings, metrics,
                    server >>

GitHubSpec == InitGitHub /\ [][AnalyzeGitHubRepo]_vars

-----------------------------------------------------------------------------
(* The analyzers on one file of each language, over the lines the language- *)
(* gated rules look for.                                                    *)
LanguageTags ==
    { [ path |-> "app.js", language |-> "javascript" ],
      [ path |-> "app.ts", language |-> "typescript" ],
      [ path |-> "db.py", language |-> "python" ],
      [ path |-> "index.php", language |-> "php" ],
      [ path |-> "Main.java", language |-> "java" ] }

RuleLines ==
    { "window.addEventListener(\"load\", init);",
      "window.removeEventListener(\"load\", init);",
      "setInterval(tick, 1000);",
      "clearInterval(timer);",
      "db.query(\"SELECT * FROM users WHERE token = 'abcdefgh' AND id = \" + id + \"\");",
      "el.innerHTML = userInput;",
      "const password = \"hardcoded123\";" }

InitRules ==
    /\ \E tag \in LanguageTags :
           \E n \in 1..MaxLines :
               \E content \in [ 1..n -> RuleLines ] :
                   files = << [ path |-> tag.path, language |-> tag.language,
                                content |-> content, size |-> SizeOf(content) ] >>
    /\ Idle
    /\ findings = <<>>
    /\ metrics = NoResult

RuleSpec == InitRules /\ [][AnalyzeCodeStart]_vars

-----------------------------------------------------------------------------
(* The HTTP server of cli.ts.                                                *)
(*                                                                           *)
(* A handler runs from one await to the next in one step.  server.clock is   *)
(* Date.now(); server.cache is analysisCache, a function from the ids set    *)
(* (the clock value n stands for the id "report-n"); server.uploads is the   *)
(* set of files in uploads/, each named by the clock value and the original  *)
(* name multer joins into its file name.                                     *)

RECURSIVE parseFiles(_)
(* parseFiles(filePaths), given the files at those paths: the path of a      *)
(* CodeFile is the base name, of which the original name is kept.            *)
parseFiles(filePaths) ==
    IF filePaths = <<>> THEN <<>>
    ELSE LET filePath == Head(filePaths)
             language == supportedExtensions(extname(filePath.path))
         IN  IF language = NoLanguage
             THEN parseFiles(Tail(filePaths))
             ELSE << [ path |-> filePath.path, content |-> filePath.content,
                       language |-> language, size |-> filePath.size ] >>
                      \o parseFiles(Tail(filePaths))

(* A file of the given name and first lines; size is its stats.size. *)
DiskFile(name, content, size) ==
    [ path |-> name, content |-> content, size |-> size ]

(* The files of an upload (req.files), fewer than the 50 multer lets in. *)
Uploads ==
    { <<>>,
      << DiskFile("README.md", << "let total = 0;" >>, 14) >>,
      << DiskFile("app.js", << "const password = \"hardcoded123\";" >>, 32) >>,
      << DiskFile("db.py", << "el.innerHTML = userInput;" >>, 25) >>,
      << DiskFile("app.js", << "let total = 0;" >>, 1024 * 1024 + 1),
         DiskFile("README.md", << "let total = 0;" >>, 14) >> }

(* req.body.directoryPath: missing, the path of no directory, or the path   *)
(* of a directory with the files glob finds in it.                          *)
Directories ==
    { [ path |-> FALSE ],
      [ path |-> TRUE, exists |-> FALSE ],
      [ path |-> TRUE, exists |-> TRUE,
        found |-> << DiskFile("README.md", << "let total = 0;" >>, 14) >> ],
      [ path |-> TRUE, exists |-> TRUE,
        found |-> << DiskFile("app.js", << "let total = 0;" >>, 1024 * 1024 + 1),
                     DiskFile("db.py", << "let total = 0;" >>, 1024 * 1024) >> ] }

InitServer ==
    /\ files = <<>>
    /\ securityIssues = <<>>
    /\ performanceIssues = <<>>
    /\ complexityIssues = <<>>
    /\ allIssues = <<>>
    /\ calls = 0
    /\ response = NotSettled
    /\ result = NoResult
    /\ findings = <<>>
    /\ metrics = NoResult
    /\ github = NoRepository
    /\ pc = "listening"
    /\ server = [ clock |-> 0, cache |-> <<>>, uploads |-> {},
                  requests |-> [ r \in 1..MaxRequests |-> [ pc |-> "idle" ] ] ]

engineVars ==
    << files, pc, securityIssues, performanceIssues, complexityIssues,
       allIssues, calls, response, result, findings, metrics, github >>

(* POST /api/analyze/files up to the await of analyzeCode's advisory call:   *)
(* multer has stored the files; the handler answers 400 or parses them and   *)
(* starts the analysis.  Requests are numbered in the order their handlers   *)
(* start.                                                                    *)
PostAnalyzeFiles(r, upload) ==
    /\ pc = "listening"
    /\ server.requests[r].pc = "idle"
    /\ r > 1 => server.requests[r - 1].pc # "idle"
    /\ LET stored == { << server.clock, upload[k].path >> : k \in 1..Len(upload) }
           codeFiles == parseFiles(upload)
           request == [ pc |-> "analyzing", kind |-> "files", stored |-> stored,
                        codeFiles |-> codeFiles, status |-> "pending" ]
       IN  server' =
               [ server EXCEPT
                   !.uploads = @ \cup stored,
                   !.requests[r] =
                       IF upload = <<>>
                       THEN [ request EXCEPT !.pc = "done",
                                              !.status = "400 No files uploaded" ]
                       ELSE IF codeFiles = <<>>
                       THEN [ request EXCEPT !.pc = "done",
                                              !.status = "400 No supported code files found" ]
                       ELSE request ]
    /\ UNCHANGED engineVars

(* POST /api/analyze/directory up to the same await. *)
PostAnalyzeDirectory(r, directory) ==
    /\ pc = "listening"
    /\ server.requests[r].pc = "idle"
    /\ r > 1 => server.requests[r - 1].pc # "idle"
    /\ LET codeFiles == IF directory.path /\ directory.exists
                        THEN parseDirectory(directory.found) ELSE <<>>
           request == [ pc |-> "analyzing", kind |-> "directory", stored |-> {},
                        codeFiles |-> codeFiles, status |-> "pending" ]
       IN  server' =
               [ server EXCEPT
                   !.requests[r] =
                       IF ~directory.path
                       THEN [ request EXCEPT !.pc = "done",
                                              !.status = "400 directoryPath is required" ]
                       ELSE IF ~directory.exists
                       THEN [ request EXCEPT !.pc = "done",
                                              !.status = "400 Directory does not exist" ]
                       ELSE IF codeFiles = <<>>
                       THEN [ request EXCEPT !.pc = "done",
                                              !.status = "400 No supported code files found in directory" ]
                       ELSE request ]
    /\ UNCHANGED engineVars

(* analyzeCode settles in a handler, its advisory call having settled with   *)
(* settled: on a rejection (analysis is NoResult) the catch answers 500;     *)
(* otherwise the result is put in the cache under an id made of Date.now()   *)
(* and the handler awaits the report generator.                              *)
AnalysisSettles(r, settled) ==
    /\ pc = "listening"
    /\ server.requests[r].pc = "analyzing"
    /\ LET request == server.requests[r]
           fs == request.codeFiles
           issues == SecurityAnalyzer_analyze(fs)
                         \o PerformanceAnalyzer_analyze(fs)
                         \o ComplexityAnalyzer_analyze(fs)
           enhancedIssues == enhanceWithAI(fs, issues, settled)
           analysis ==
               IF \/ \E k \in 1..Len(fs) : SplitThrows(fs[k])
                  \/ \E k \in 1..Len(enhancedIssues) :
                         ReadThrows(enhancedIssues[k])
               THEN NoResult
               ELSE AnalysisResult(fs, enhancedIssues, issues)
           reportId == server.clock
       IN  IF analysis = NoResult
           THEN server' = [ server EXCEPT
                              !.requests[r] = [ request EXCEPT !.pc = "done",
                                                               !.status = "500" ] ]
           ELSE server' =
                    [ server EXCEPT
                        !.cache = [ id \in DOMAIN server.cache \cup { reportId } |->
                                      IF id = reportId THEN analysis
                                      ELSE server.cache[id] ],
                        !.requests[r] =
                            [ pc |-> "reporting", kind |-> request.kind,
                              stored |-> request.stored,
                              codeFiles |-> request.codeFiles,
                              status |-> "pending", result |-> analysis,
                              reportId |-> reportId ] ]
    /\ UNCHANGED engineVars

(* The report generation of a request settles: when it throws the catch      *)
(* answers 500; otherwise the uploaded files are removed and the handler     *)
(* answers with the reportId.                                                *)
ReportSettles(r, generated) ==
    /\ pc = "listening"
    /\ server.requests[r].pc = "reporting"
    /\ LET request == server.requests[r]
       IN  IF ~generated
           THEN server' = [ server EXCEPT
                              !.requests[r] = [ request EXCEPT !.pc = "done",
                                                               !.status = "500" ] ]
           ELSE server' = [ server EXCEPT
                              !.uploads = @ \ request.stored,
                              !.requests[r] = [ request EXCEPT !.pc = "done",
                                                               !.status = "200" ] ]
    /\ UNCHANGED engineVars

(* GET /api/report/:id with the reportId of an answered request. *)
GetReport(r) ==
    /\ pc = "listening"
    /\ server.requests[r].pc = "done"
    /\ server.requests[r].status = "200"
    /\ server' =
           [ server EXCEPT
               !.requests[r] =
                   [ kind |-> @.kind, stored |-> @.stored,
                     codeFiles |-> @.codeFiles, status |-> @.status,
                     result |-> @.result, reportId |-> @.reportId,
                     pc |-> "read", via |-> "report",
                     used |-> server.cache[@.reportId] ] ]
    /\ UNCHANGED engineVars

(* POST /api/ask with that reportId and a question, up to the await of       *)
(* answerQuestion: the result handed to it is the cache's.                   *)
PostAsk(r) ==
    /\ pc = "listening"
    /\ server.requests[r].pc = "done"
    /\ server.requests[r].status = "200"
    /\ server' =
           [ server EXCEPT
               !.requests[r] =
                   [ kind |-> @.kind, stored |-> @.stored,
                     codeFiles |-> @.codeFiles, status |-> @.status,
                     result |-> @.result, reportId |-> @.reportId,
                     pc |-> "read", via |-> "ask",
                     used |-> server.cache[@.reportId] ] ]
    /\ UNCHANGED engineVars

(* A millisecond passes. *)
Tick ==
    /\ pc = "listening"
    /\ server.clock < MaxClock
    /\ server' = [ server EXCEPT !.clock = @ + 1 ]
    /\ UNCHANGED engineVars

ServerNext ==
    \/ \E r \in 1..MaxRequests : \E upload \in Uploads : PostAnalyzeFiles(r, upload)
    \/ \E r \in 1..MaxRequests : \E directory \in Directories :
           PostAnalyzeDirectory(r, directory)
    \/ \E r \in 1..MaxRequests : \E settled \in { Rejected, Fulfilled(Stringify(<< JsonNull >>)) } :
           AnalysisSettles(r, settled)
    \/ \E r \in 1..MaxRequests : \E generated \in BOOLEAN : ReportSettles(r, generated)
    \/ \E r \in 1..MaxRequests : GetReport(r)
    \/ \E r \in 1..MaxRequests : PostAsk(r)
    \/ Tick

ServerSpec == InitServer /\ [][ServerNext]_vars
-----------------------------------------------------------------------------
(* Properties of analyzeCode and of the augmentation step. *)

(* Whether every entry of a list carries one of the four severities. *)
HasSeverities(issues) ==
    \A k \in 1..Len(issues) :
        "severity" \in DOMAIN issues[k] /\ issues[k].severity \in Severities

(* C1: the metrics of a returned result are the scoring function applied to *)
(* the augmented list, the list returned as result.issues (stated for the   *)
(* results all of whose entries carry a severity of the weight table).      *)
C1_MetricsOfAugmentedList ==
    (pc = "resolved" /\ HasSeverities(result.issues))
        => result.metrics = calculateMetrics(result.issues)

(* The number of entries of a list whose severity is critical. *)
CriticalCount(issues) ==
    Cardinality({ k \in 1..Len(issues) :
                      /\ "severity" \in DOMAIN issues[k]
                      /\ issues[k].severity = "critical" })

(* C2: in every returned result summary.totalIssues is the length of        *)
(* result.issues and summary.criticalIssues the number of its entries whose *)
(* severity is critical.                                                    *)
C2_SummaryCountsIssues ==
    pc = "resolved"
        => /\ result.summary.totalIssues = Len(result.issues)
           /\ result.summary.criticalIssues = CriticalCount(result.issues)

(* A result whose list the advisory response made longer, with critical and *)
(* other entries.                                                           *)
C2_Witness ==
    /\ pc = "resolved"
    /\ response.kind = "fulfilled"
    /\ Len(result.issues) > Len(allIssues)
    /\ result.summary.criticalIssues > CriticalCount(allIssues)
    /\ CriticalCount(allIssues) > 0
    /\ result.summary.criticalIssues < result.summary.totalIssues

(* The ways the augmentation step fails: the call throws, the response has  *)
(* no content, no array is found in it, or the array text does not parse.   *)
AugmentationFailed ==
    \/ response.kind = "rejected"
    \/ /\ response.kind = "fulfilled"
       /\ \/ response.content = <<>>
          \/ MatchArray(response.content) = <<>>
          \/ ~JSONparse(MatchArray(response.content)).ok

(* C3: when the augmentation step fails the run still returns a result, and *)
(* result.issues is the concatenation of the three analyzers' findings,     *)
(* unchanged.                                                               *)
C3_FailureKeepsFindings ==
    (pc \in { "resolved", "rejected" } /\ AugmentationFailed)
        => /\ pc = "resolved"
           /\ result.issues = allIssues
           /\ result.issues
                  = securityIssues \o performanceIssues \o complexityIssues

(* A run with findings whose response held brackets that did not parse. *)
C3_Witness ==
    /\ pc = "resolved"
    /\ response.kind = "fulfilled"
    /\ MatchArray(response.content) # <<>>
    /\ ~JSONparse(MatchArray(response.content)).ok
    /\ securityIssues # <<>>
    /\ performanceIssues # <<>>

(* C4: no advisory response makes the run throw: analyzeCode never rejects. *)
C4_NoResponseThrows == pc # "rejected"

(* C5: analyzeCode eventually returns, whether or not the advisory service  *)
(* ever responds.                                                           *)
C5_EventuallyReturns == <>(pc \in { "resolved", "rejected" })

(* C7: in every returned result each of the three scores is an integer      *)
(* from 0 to 100.                                                           *)
C7_ScoresInRange ==
    pc = "resolved"
        => /\ result.metrics.codeQualityScore \in 0..100
           /\ result.metrics.securityScore \in 0..100
           /\ result.metrics.maintainabilityScore \in 0..100

(* A result with one high complexity finding: 100 - 1.5 * 5 = 92.5, which   *)
(* is returned as 93.                                                       *)
C7_Witness ==
    /\ pc = "resolved"
    /\ complexityIssues # <<>>
    /\ result.metrics.maintainabilityScore = 93

(* What the augmentation step adds: the elements of the array parsed from   *)
(* the response, nothing when the step failed.                              *)
AugmentationFindings ==
    IF AugmentationFailed THEN <<>>
    ELSE JSONparse(MatchArray(response.content)).value.array

(* C9: result.issues is the security findings, then the performance         *)
(* findings, then the complexity findings, then what augmentation added; so *)
(* the list before augmentation is a prefix of it.                          *)
C9_IssuesAreConcatenation ==
    pc = "resolved"
        => /\ result.issues
                  = securityIssues \o performanceIssues \o complexityIssues
                        \o AugmentationFindings
           /\ Len(allIssues) <= Len(result.issues)
           /\ SubSeq(result.issues, 1, Len(allIssues)) = allIssues

(* A result with security and performance findings and added ones. *)
C9_Witness ==
    /\ pc = "resolved"
    /\ securityIssues # <<>>
    /\ performanceIssues # <<>>
    /\ AugmentationFindings # <<>>
    /\ Len(result.issues) > Len(allIssues)

-----------------------------------------------------------------------------
(* Properties of calculateMetrics. *)

(* How many of the scored findings have a category of categories and the    *)
(* given severity.                                                          *)
NumberOf(categories, severity) ==
    Cardinality({ k \in 1..Len(findings) :
                      /\ findings[k].category \in categories
                      /\ findings[k].severity = severity })

(* W_c of the reference scoring, for the categories c of categories. *)
ReferenceWeight(categories) ==
    10 * NumberOf(categories, "critical") + 5 * NumberOf(categories, "high")
        + 2 * NumberOf(categories, "medium") + NumberOf(categories, "low")

(* score is the integer nearest to x, a half going up, where twice is 2x. *)
IsNearestInteger(score, twice) ==
    /\ score \in Int
    /\ 2 * score - 1 <= twice
    /\ twice < 2 * score + 1

(* Twice max(0, 100 - factor * weight), where twiceFactor is 2 * factor. *)
TwiceReference(twiceFactor, weight) ==
    IF 200 - twiceFactor * weight > 0 THEN 200 - twiceFactor * weight ELSE 0

(* C6: calculateMetrics equals the reference scoring: codeQualityScore =    *)
(* max(0, 100 - W_all), securityScore = max(0, 100 - 2 * W_security),       *)
(* maintainabilityScore = max(0, 100 - 1.5 * W_complexity), each rounded to *)
(* the nearest integer (halves up); a list without security findings has    *)
(* securityScore = 100.                                                     *)
C6_ReferenceScoring ==
    pc \in { "scored", "rescored" }
        => /\ IsNearestInteger(metrics.codeQualityScore,
                               TwiceReference(2, ReferenceWeight(Categories)))
           /\ IsNearestInteger(metrics.securityScore,
                               TwiceReference(4, ReferenceWeight({ "security" })))
           /\ IsNearestInteger(metrics.maintainabilityScore,
                               TwiceReference(3, ReferenceWeight({ "complexity" })))
           /\ (\A k \in 1..Len(findings) : findings[k].category # "security")
                  => metrics.securityScore = 100

(* A scored list without security findings whose complexity weight is odd   *)
(* (so 1.5 * W ends in a half) and which has other findings as well.        *)
C6_Witness ==
    /\ pc = "scored"
    /\ ReferenceWeight({ "complexity" }) % 2 = 1
    /\ ReferenceWeight({ "complexity" }) < 66
    /\ ReferenceWeight({ "security" }) = 0
    /\ ReferenceWeight(Categories) > ReferenceWeight({ "complexity" })

(* C8: making one finding of a list more severe (low < medium < high <      *)
(* critical), or appending a finding, never increases codeQualityScore.     *)
C8_MonotoneInSeverity ==
    [][ pc' = "rescored"
            => metrics'.codeQualityScore <= metrics.codeQualityScore ]_vars

(* A list scored again after such a change, its score above the floor. *)
C8_Witness ==
    /\ pc = "rescored"
    /\ metrics.codeQualityScore > 0
    /\ metrics.codeQualityScore < 90
    /\ \E j, k \in 1..Len(findings) : findings[j].severity # findings[k].severity

-----------------------------------------------------------------------------
(* Order of the findings of one analyzer. *)

(* The three category blocks of result.issues. *)
CategoryBlocks == { securityIssues, performanceIssues, complexityIssues }

(* The position among the files of the file a finding is located in. *)
FileIndex(issue) ==
    CHOOSE k \in 1..Len(files) : files[k].path = issue.location.file

HasLine(issue) == "line" \in DOMAIN issue.location

(* C10 as stated: within each category block findings are in scan order by  *)
(* file and, within one file, by non-decreasing line number, whichever      *)
(* detection rule produced each.                                            *)
C10_OrderedByFileThenLine ==
    \A block \in CategoryBlocks :
        \A i, j \in 1..Len(block) :
            i < j =>
                /\ FileIndex(block[i]) <= FileIndex(block[j])
                /\ (/\ FileIndex(block[i]) = FileIndex(block[j])
                    /\ HasLine(block[i])
                    /\ HasLine(block[j]))
                       => block[i].location.line <= block[j].location.line

(* The place of a finding's detection rule among the rules of its analyzer, *)
(* in the order the analyzer applies them to a file.                        *)
RuleRank(issue) ==
    CASE issue.title = "Hardcoded Secret Detected" -> 1
      [] issue.title = "Potential SQL Injection Vulnerability" -> 2
      [] issue.title = "Potential XSS Vulnerability" -> 3
      [] issue.title = "Unpinned Dependencies" -> 4
      [] issue.title = "Deeply Nested Loops Detected" -> 1
      [] issue.title \in { inefficientTitles[p] : p \in 1..Len(inefficientTitles) } -> 2
      [] issue.title \in { "Potential Memory Leak: Event Listener",
                           "Potential Memory Leak: Interval" } -> 3
      [] issue.title = "High Cyclomatic Complexity" -> 1
      [] issue.title = "Long Function" -> 2
      [] issue.title = "Code Duplication Detected" -> 3

(* C10 amended: within each category block findings are in scan order by    *)
(* file; within one file they are grouped by detection rule, in the order   *)
(* the analyzer applies its rules; within one rule of one file they are in  *)
(* order of non-decreasing line number.                                     *)
C10_OrderedByFileRuleLine ==
    \A block \in CategoryBlocks :
        \A i, j \in 1..Len(block) :
            i < j =>
                /\ FileIndex(block[i]) <= FileIndex(block[j])
                /\ FileIndex(block[i]) = FileIndex(block[j])
                       => RuleRank(block[i]) <= RuleRank(block[j])
                /\ (/\ FileIndex(block[i]) = FileIndex(block[j])
                    /\ RuleRank(block[i]) = RuleRank(block[j])
                    /\ HasLine(block[i])
                    /\ HasLine(block[j]))
                       => block[i].location.line <= block[j].location.line

(* Security findings of two files where, within one file, a finding of a    *)
(* later rule has a smaller line number than an earlier finding.            *)
C10_Witness ==
    /\ pc = "awaiting"
    /\ \E i, j \in 1..Len(securityIssues) :
           /\ i < j
           /\ FileIndex(securityIssues[i]) = FileIndex(securityIssues[j])
           /\ RuleRank(securityIssues[i]) < RuleRank(securityIssues[j])
           /\ HasLine(securityIssues[j])
           /\ securityIssues[i].location.line > securityIssues[j].location.line
    /\ \E i, j \in 1..Len(securityIssues) :
           FileIndex(securityIssues[i]) < FileIndex(securityIssues[j])

-----------------------------------------------------------------------------
(* Properties of the pattern rules. *)

PasswordLine == "const password = \"hardcoded123\";"

(* The positions in issues of the findings located at line i of a file. *)
FindingsAt(issues, file, i) ==
    { j \in 1..Len(issues) :
          /\ issues[j].location.file = file.path
          /\ HasLine(issues[j])
          /\ issues[j].location.line = i }

(* C11: for every file and every line of it that is the line                *)
(* const password = "hardcoded123"; the security analyzer emits exactly one *)
(* finding at that line, with category security, severity critical and     *)
(* title "Hardcoded Secret Detected".                                       *)
C11_PasswordLineFlaggedOnce ==
    pc = "awaiting"
        => \A k \in 1..Len(files) :
               \A i \in 1..Len(files[k].content) :
                   files[k].content[i] = PasswordLine
                       => /\ Cardinality(FindingsAt(securityIssues, files[k], i)) = 1
                          /\ \A j \in FindingsAt(securityIssues, files[k], i) :
                                 /\ securityIssues[j].category = "security"
                                 /\ securityIssues[j].severity = "critical"
                                 /\ securityIssues[j].title
                                        = "Hardcoded Secret Detected"

(* The per-line pattern rules, the titles of their findings and the         *)
(* languages each is applied to.                                            *)
PatternRules == { "secret", "sql", "xss", "inefficient" }

RuleTitles(rule) ==
    CASE rule = "secret" -> { "Hardcoded Secret Detected" }
      [] rule = "sql" -> { "Potential SQL Injection Vulnerability" }
      [] rule = "xss" -> { "Potential XSS Vulnerability" }
      [] rule = "inefficient" ->
             { inefficientTitles[p] : p \in 1..Len(inefficientTitles) }

RuleApplies(rule, file) ==
    CASE rule = "sql" ->
             file.language \in { "javascript", "typescript", "python", "php" }
      [] rule = "xss" -> file.language \in { "javascript", "typescript" }
      [] OTHER -> TRUE

(* Whether a line holds a match of one of the rule's patterns. *)
LineMatches(rule, line) ==
    \E p \in 1..Len(PatternsOf(rule, line)) : PatternsOf(rule, line)[p] # <<>>

(* C12: for every per-line pattern rule and every line of a file that       *)
(* matches one of the rule's patterns, a finding of the rule is emitted at  *)
(* that line, whatever the preceding lines of the file contained.           *)
C12_EveryMatchingLineFlagged ==
    pc = "awaiting"
        => \A rule \in PatternRules :
               \A k \in 1..Len(files) :
                   \A i \in 1..Len(files[k].content) :
                       (/\ RuleApplies(rule, files[k])
                        /\ LineMatches(rule, files[k].content[i]))
                           => \E j \in FindingsAt(
                                           securityIssues \o performanceIssues,
                                           files[k], i) :
                                  (securityIssues \o performanceIssues)[j].title
                                      \in RuleTitles(rule)

-----------------------------------------------------------------------------
(* Properties of the analyzers on longer files. *)

(* Whether line i of the file has a brace or declares a function. *)
HasBraceOrDeclaration(file, i) ==
    \/ OpenBraces(Trim(file.content[i])) > 0
    \/ CloseBraces(Trim(file.content[i])) > 0
    \/ isFunctionDeclaration(Trim(file.content[i]))

(* The first line after s with a brace or a declaration; 0 if none. *)
NextBraceLine(file, s) ==
    LET later == { m \in (s + 1)..Len(file.content) :
                       HasBraceOrDeclaration(file, m) }
    IN  IF later = {} THEN 0
        ELSE CHOOSE m \in later : \A j \in later : m <= j

(* A function declared at line s whose declaration line opens one brace,    *)
(* whose body lines have no braces, and whose braces balance at line e.     *)
FunctionSpans(file, s, e) ==
    /\ isFunctionDeclaration(Trim(file.content[s]))
    /\ OpenBraces(Trim(file.content[s])) = 1
    /\ CloseBraces(Trim(file.content[s])) = 0
    /\ e = NextBraceLine(file, s)
    /\ e > s
    /\ ~isFunctionDeclaration(Trim(file.content[e]))
    /\ OpenBraces(Trim(file.content[e])) = 0
    /\ CloseBraces(Trim(file.content[e])) = 1

(* C13: every function that spans more than 50 lines from its declaration   *)
(* line to the line where its braces balance yields a "Long Function"       *)
(* finding at its start line, with severity high if it spans more than 100  *)
(* lines (101 lines: high) and medium otherwise.                            *)
C13_EndedLongFunctionReported ==
    pc = "awaiting"
        => \A k \in 1..Len(files) :
               \A s \in 1..Len(files[k].content) :
                   LET e == NextBraceLine(files[k], s)
                   IN  (FunctionSpans(files[k], s, e) /\ e - s + 1 > 50)
                           => \E j \in FindingsAt(complexityIssues, files[k], s) :
                                  /\ complexityIssues[j].title = "Long Function"
                                  /\ complexityIssues[j].severity
                                         = IF e - s + 1 > 100 THEN "high"
                                           ELSE "medium"

(* The pairs of places where the same five lines occur verbatim. *)
RepeatedWindows(file) ==
    { w \in (1..(Len(file.content) - 4)) \X (1..(Len(file.content) - 4)) :
          /\ w[1] < w[2]
          /\ SubSeq(file.content, w[1], w[1] + 4)
                 = SubSeq(file.content, w[2], w[2] + 4) }

(* The file's "Code Duplication Detected" findings. *)
DuplicationFindings(file) ==
    { j \in 1..Len(complexityIssues) :
          /\ complexityIssues[j].title = "Code Duplication Detected"
          /\ complexityIssues[j].location.file = file.path }

(* C14: a file in which one 5-line block (its normalized text longer than   *)
(* 50 characters) occurs verbatim at two places that do not overlap, and    *)
(* where no other five lines occur twice verbatim, yields exactly one "Code *)
(* Duplication Detected" finding, whatever lines surround the two places.   *)
C14_OneFindingPerRepeatedBlock ==
    pc = "awaiting"
        => \A k \in 1..Len(files) :
               (/\ Cardinality(RepeatedWindows(files[k])) = 1
                /\ \A w \in RepeatedWindows(files[k]) :
                       /\ w[2] >= w[1] + 5
                       /\ BlockLength(Block(files[k], w[1])) > 50)
                   => Cardinality(DuplicationFindings(files[k])) = 1

(* Whether line i of the file holds a loop keyword the analyzer counts. *)
IsLoopLine(file, i) == LoopHits(Trim(file.content[i])) > 0

(* The last line before c that has a closing brace; 0 if none. *)
LastBraceBefore(file, c) ==
    LET earlier == { m \in 1..(c - 1) : CloseBraces(Trim(file.content[m])) > 0 }
    IN  IF earlier = {} THEN 0
        ELSE CHOOSE m \in earlier : \A j \in earlier : m >= j

(* The loop lines up to line c with no closing-brace line from the first of *)
(* them to the line before c.                                               *)
LoopLinesUpTo(file, c) ==
    { m \in (LastBraceBefore(file, c) + 1)..c : IsLoopLine(file, m) }

(* C15: in every file, a loop line that is the third (or a later one) of    *)
(* loop lines with no closing-brace line between them, whatever lines come  *)
(* before, has a finding of severity high titled "Deeply Nested Loops       *)
(* Detected" at its line.                                                   *)
C15_ThirdLoopReported ==
    pc = "awaiting"
        => \A k \in 1..Len(files) :
               \A c \in 1..Len(files[k].content) :
                   (/\ IsLoopLine(files[k], c)
                    /\ Cardinality(LoopLinesUpTo(files[k], c)) >= 3)
                       => \E j \in FindingsAt(performanceIssues, files[k], c) :
                              /\ performanceIssues[j].title
                                     = "Deeply Nested Loops Detected"
                              /\ performanceIssues[j].severity = "high"

(* Exactly three loop lines after a closing-brace line and another line,    *)
(* with a line between them, and the finding at the third.                  *)
C15_Witness ==
    /\ pc = "awaiting"
    /\ \E c \in 2..Len(files[1].content) :
           /\ IsLoopLine(files[1], c)
           /\ ~IsLoopLine(files[1], c - 1)
           /\ LastBraceBefore(files[1], c) > 0
           /\ Cardinality(LoopLinesUpTo(files[1], c)) = 3
           /\ \E j \in FindingsAt(performanceIssues, files[1], c) :
                  performanceIssues[j].title = "Deeply Nested Loops Detected"

-----------------------------------------------------------------------------
(* Properties of a run of analyzeCode as a whole. *)

(* C16: in every run of analyzeCode the advisory service is invoked exactly *)
(* once: no request has been made before the run starts, and from the       *)
(* moment the analyzers are done to the end of the run exactly one has      *)
(* been, whatever the analyzers found and however the request settled.      *)
C16_AdvisoryCalledOnce ==
    /\ pc = "idle" => calls = 0
    /\ pc \in { "awaiting", "resolved", "rejected" } => calls = 1

(* A finished run in which the analyzers found nothing and the one request  *)
(* threw.                                                                   *)
C16_Witness ==
    /\ pc = "resolved"
    /\ files # <<>>
    /\ allIssues = <<>>
    /\ response.kind = "rejected"
    /\ calls = 1

(* The metrics of a list without findings. *)
FullScores ==
    [ codeQualityScore |-> baseScore, securityScore |-> baseScore,
      maintainabilityScore |-> baseScore ]

(* C17: a run of analyzeCode whose file list is empty never ends as an      *)
(* ordinary successful result with zero findings and full scores.           *)
C17_EmptyRunNotSilentSuccess ==
    ~ /\ files = <<>>
      /\ pc = "resolved"
      /\ result.summary.totalIssues = 0
      /\ result.issues = <<>>
      /\ result.metrics = FullScores

(* Whether a value is a well-formed Finding: one of the six categories and  *)
(* one of the four severities.                                              *)
WellFormed(issue) ==
    /\ "category" \in DOMAIN issue
    /\ issue.category \in Categories
    /\ "severity" \in DOMAIN issue
    /\ issue.severity \in Severities

(* C20: every entry of the result.issues of a returned result is a          *)
(* well-formed Finding, so the augmentation step appends no element of the  *)
(* parsed array that lacks a valid category or a valid severity.            *)
C20_IssuesWellFormed ==
    pc = "resolved"
        => \A k \in 1..Len(result.issues) : WellFormed(result.issues[k])

(* The files of a run whose content splits into lines. *)
SplittableFiles == SelectSeq(files, LAMBDA file : ~SplitThrows(file))

C19_BranchSpecific ==
    pc = "cloned"
        => /\ github.checkedOut = parseGitHubUrl(github.url).branch
           /\ files = parseDirectory(TreeOf(parseGitHubUrl(github.url).branch))
-----------------------------------------------------------------------------
(* Properties of the performance and complexity rules. *)

RECURSIVE ReferenceLevel(_, _)
(* The nesting counter after line i of a file when every loop line raises   *)
(* it by one and every line with a closing brace then lowers it by one, not *)
(* below zero.                                                              *)
ReferenceLevel(file, i) ==
    IF i = 0 THEN 0
    ELSE LET raised == ReferenceLevel(file, i - 1)
                           + (IF IsLoopLine(file, i) THEN 1 ELSE 0)
         IN  IF CloseBraces(Trim(file.content[i])) > 0
             THEN Max(0, raised - 1)
             ELSE raised

(* The positions of the nested-loop findings at line i of a file. *)
NestedLoopFindings(file, i) ==
    { j \in FindingsAt(performanceIssues, file, i) :
          performanceIssues[j].title = "Deeply Nested Loops Detected" }

(* C21: the nesting counter of checkNestedLoops starts at 0 in each file,   *)
(* goes up by one at each loop line and down by one, not below zero, at     *)
(* each line with a closing brace; a line has one "Deeply Nested Loops      *)
(* Detected" finding when its increment brings the counter to 3 or more,    *)
(* and no such finding otherwise.                                           *)
C21_OneLevelPerLoopLine ==
    pc = "awaiting"
        => \A k \in 1..Len(files) :
               \A i \in 1..Len(files[k].content) :
                   Cardinality(NestedLoopFindings(files[k], i))
                       = IF /\ IsLoopLine(files[k], i)
                            /\ ReferenceLevel(files[k], i - 1) + 1 >= 3
                         THEN 1
                         ELSE 0

(* The declaration lines of a file. *)
Declarations(file) ==
    { i \in 1..Len(file.content) : isFunctionDeclaration(Trim(file.content[i])) }

(* The declaration lines that have a declaration line before them. *)
Boundaries(file) ==
    { d \in Declarations(file) : \E p \in Declarations(file) : p < d }

(* The last declaration line before line d. *)
PreviousDeclaration(file, d) ==
    CHOOSE p \in Declarations(file) :
        p < d /\ \A q \in Declarations(file) : q < d => q <= p

(* One plus the keyword occurrences of the lines p..d-1. *)
ReferenceComplexity(file, p, d) ==
    1 + Sum([ m \in 1..(d - p) |-> KeywordOccurrences(Trim(file.content[p + m - 1])) ])

(* The positions of the findings of a file with a title. *)
TitledFindings(issues, file, title) ==
    { j \in 1..Len(issues) :
          issues[j].location.file = file.path /\ issues[j].title = title }

(* C22: the "High Cyclomatic Complexity" findings of a file are, one for    *)
(* each declaration line whose previous function has a counter above 10     *)
(* (one plus the tokens from its declaration line to the line before), a    *)
(* finding at the previous declaration line with that line as snippet and   *)
(* severity high when the counter is above 20, medium otherwise.            *)
C22_CyclomaticAtBoundaries ==
    pc = "awaiting"
        => \A k \in 1..Len(files) :
               LET file == files[k]
                   found == TitledFindings(complexityIssues, file,
                                           "High Cyclomatic Complexity")
                   complex ==
                       { d \in Boundaries(file) :
                             ReferenceComplexity(
                                 file, PreviousDeclaration(file, d), d) > 10 }
               IN  /\ Cardinality(found) = Cardinality(complex)
                   /\ { [ line |-> complexityIssues[j].location.line,
                          snippet |-> complexityIssues[j].location.snippet,
                          severity |-> complexityIssues[j].severity ] :
                            j \in found }
                      = { [ line |-> PreviousDeclaration(file, d),
                            snippet |->
                                << Trim(file.content[PreviousDeclaration(file, d)]) >>,
                            severity |->
                                IF ReferenceComplexity(
                                       file, PreviousDeclaration(file, d), d) > 20
                                THEN "high" ELSE "medium" ] : d \in complex }

(* A file with tokens before its first declaration, a function of counter   *)
(* 21 reported high, and a function after it that is not reported.          *)
C22_Witness ==
    /\ pc = "awaiting"
    /\ KeywordOccurrences(Trim(files[1].content[1])) > 0
    /\ ~isFunctionDeclaration(Trim(files[1].content[1]))
    /\ Cardinality(Boundaries(files[1])) = 2
    /\ \E d \in Boundaries(files[1]) :
           ReferenceComplexity(files[1], PreviousDeclaration(files[1], d), d) = 21
    /\ \E j \in TitledFindings(complexityIssues, files[1],
                               "High Cyclomatic Complexity") :
           complexityIssues[j].severity = "high"
    /\ Cardinality(TitledFindings(complexityIssues, files[1],
                                  "High Cyclomatic Complexity")) = 1

(* The next declaration line after line p; 0 when there is none. *)
NextDeclaration(file, p) ==
    LET later == { d \in Declarations(file) : d > p }
    IN  IF later = {} THEN 0
        ELSE CHOOSE d \in later : \A q \in later : d <= q

(* The opening minus the closing braces of the lines p..m. *)
BraceBalance(file, p, m) ==
    Sum([ l \in 1..(m - p + 1) |->
            OpenBraces(Trim(file.content[p + l - 1]))
                - CloseBraces(Trim(file.content[p + l - 1])) ])

(* Whether the function declared at line p has a brace balance of zero at   *)
(* the end of a line after its first and before line e.                     *)
ClosedBefore(file, p, e) ==
    \E m \in (p + 1)..(e - 1) : BraceBalance(file, p, m) = 0

(* C26: every "Long Function" finding is at the declaration line of a       *)
(* function that has a declaration line after it and whose brace balance    *)
(* is not zero at the end of any line between its first and that line, and  *)
(* reports as length the number of lines from the one to the line before    *)
(* the other; a function whose balance is zero at the end of such a line    *)
(* has no finding, however long it is.                                      *)
C26_LongFunctionOnlyWhenOpen ==
    pc = "awaiting"
        => \A k \in 1..Len(files) :
               LET file == files[k]
                   found == TitledFindings(complexityIssues, file, "Long Function")
               IN  /\ \A j \in found :
                          LET p == complexityIssues[j].location.line
                              d == NextDeclaration(file, p)
                          IN  /\ p \in Declarations(file)
                              /\ d > 0
                              /\ ~ClosedBefore(file, p, d)
                              /\ complexityIssues[j].description[2] = d - p
                   /\ \A p \in Declarations(file) :
                          ClosedBefore(file, p, Len(file.content) + 1)
                              => \A j \in found :
                                     complexityIssues[j].location.line # p

(* A function of more than 50 lines left open and reported with its length, *)
(* in a file whose other function is closed.                                *)
C26_Witness ==
    /\ pc = "awaiting"
    /\ Cardinality(Declarations(files[1])) = 2
    /\ ClosedBefore(files[1], NextDeclaration(files[1], 1),
                    Len(files[1].content) + 1)
    /\ \E j \in TitledFindings(complexityIssues, files[1], "Long Function") :
           /\ complexityIssues[j].location.line = 1
           /\ complexityIssues[j].description[2] > 50
           /\ complexityIssues[j].description[2] = NextDeclaration(files[1], 1) - 1

(* The number of declaration lines before the last one. *)
EarlierDeclarations(file) == Max(0, Cardinality(Declarations(file)) - 1)

(* C27: no "High Cyclomatic Complexity" and no "Long Function" finding is   *)
(* at the last declaration line of a file, so a file has at most as many    *)
(* findings of each kind as it has declaration lines before its last.       *)
C27_NothingAtEndOfFile ==
    pc = "awaiting"
        => \A k \in 1..Len(files) :
               \A title \in { "High Cyclomatic Complexity", "Long Function" } :
                   LET file == files[k]
                       found == TitledFindings(complexityIssues, file, title)
                   IN  /\ \A j \in found :
                              /\ complexityIssues[j].location.line
                                     \in Declarations(file)
                              /\ NextDeclaration(
                                     file, complexityIssues[j].location.line) > 0
                       /\ Cardinality(found) <= EarlierDeclarations(file)

(* A file that ends in an open function of more than 100 lines: the        *)
(* complexity analyzer has findings for it, none of them a Long Function.   *)
C27_Witness ==
    /\ pc = "awaiting"
    /\ Declarations(files[1]) = { 1 }
    /\ Len(files[1].content) > 100
    /\ ~ClosedBefore(files[1], 1, Len(files[1].content) + 1)
    /\ complexityIssues # <<>>
    /\ TitledFindings(complexityIssues, files[1], "Long Function") = {}
-----------------------------------------------------------------------------
(* Properties of the language-gated rules. *)

(* The positions of the performance findings with a title at line i. *)
LeakFindings(file, i, title) ==
    { j \in FindingsAt(performanceIssues, file, i) :
          performanceIssues[j].title = title }

(* C23: in a javascript or typescript file a line has one "Potential Memory *)
(* Leak: Event Listener" finding, of severity medium, when it contains      *)
(* addEventListener and no line of the file contains removeEventListener,   *)
(* and none otherwise; likewise one "Potential Memory Leak: Interval"       *)
(* finding, of severity high, for setInterval and clearInterval; a file of  *)
(* another language has neither.                                            *)
C23_LeaksFileWide ==
    pc = "awaiting"
        => \A k \in 1..Len(files) :
               LET file == files[k]
                   scripted == file.language \in { "javascript", "typescript" }
                   lines == 1..Len(file.content)
                   removes == \E m \in lines :
                                  IncludesRemoveEventListener(file.content[m])
                   clears == \E m \in lines :
                                 IncludesClearInterval(file.content[m])
               IN  \A i \in lines :
                       LET listeners ==
                               LeakFindings(file, i,
                                   "Potential Memory Leak: Event Listener")
                           intervals ==
                               LeakFindings(file, i,
                                   "Potential Memory Leak: Interval")
                       IN  /\ Cardinality(listeners)
                                  = IF /\ scripted
                                       /\ IncludesAddEventListener(file.content[i])
                                       /\ ~removes
                                    THEN 1 ELSE 0
                           /\ \A j \in listeners :
                                  performanceIssues[j].severity = "medium"
                           /\ Cardinality(intervals)
                                  = IF /\ scripted
                                       /\ IncludesSetInterval(file.content[i])
                                       /\ ~clears
                                    THEN 1 ELSE 0
                           /\ \A j \in intervals :
                                  performanceIssues[j].severity = "high"

(* A typescript file with a listener added twice and removed once, and an   *)
(* interval never cleared: the one finding is the interval's.               *)
C23_Witness ==
    /\ pc = "awaiting"
    /\ files[1].language = "typescript"
    /\ Len(files[1].content) = MaxLines
    /\ IncludesAddEventListener(files[1].content[1])
    /\ IncludesRemoveEventListener(files[1].content[2])
    /\ IncludesSetInterval(files[1].content[3])
    /\ Len(performanceIssues) = 1
    /\ performanceIssues[1].title = "Potential Memory Leak: Interval"
    /\ performanceIssues[1].location.line = 3

(* C24: a "Potential SQL Injection Vulnerability" finding is only in a file *)
(* tagged javascript, typescript, python or php, a "Potential XSS           *)
(* Vulnerability" finding only in a file tagged javascript or typescript,   *)
(* and a file of any language whose first line is a hardcoded password has  *)
(* a "Hardcoded Secret Detected" finding at that line.                      *)
C24_RulesGatedByLanguage ==
    pc = "awaiting"
        => \A k \in 1..Len(files) :
               /\ TitledFindings(securityIssues, files[k],
                                 "Potential SQL Injection Vulnerability") # {}
                      => files[k].language
                             \in { "javascript", "typescript", "python", "php" }
               /\ TitledFindings(securityIssues, files[k],
                                 "Potential XSS Vulnerability") # {}
                      => files[k].language \in { "javascript", "typescript" }
               /\ files[k].content[1] = PasswordLine
                      => \E j \in FindingsAt(securityIssues, files[k], 1) :
                             securityIssues[j].title = "Hardcoded Secret Detected"

(* A java file with a password, a query built by concatenation and an       *)
(* innerHTML assignment: all its findings are hardcoded secrets.            *)
C24_Witness ==
    /\ pc = "awaiting"
    /\ files[1].language = "java"
    /\ files[1].content
           = << PasswordLine,
                "db.query(\"SELECT * FROM users WHERE token = 'abcdefgh' AND id = \" + id + \"\");",
                "el.innerHTML = userInput;" >>
    /\ securityIssues # <<>>
    /\ securityIssues[1].location.line = 1
    /\ \A j \in 1..Len(securityIssues) :
           securityIssues[j].title = "Hardcoded Secret Detected"

(* C28: every finding of the three analyzers has category security,         *)
(* performance or complexity and severity critical, high or medium; a       *)
(* "Code Duplication Detected" finding has category complexity, and so      *)
(* lowers the maintainabilityScore of a list it is in.                      *)
C28_LocalCategoriesAndSeverities ==
    pc = "awaiting"
        => \A j \in 1..Len(allIssues) :
               /\ allIssues[j].category
                      \in { "security", "performance", "complexity" }
               /\ allIssues[j].severity \in { "critical", "high", "medium" }
               /\ allIssues[j].title = "Code Duplication Detected"
                      => /\ allIssues[j].category = "complexity"
                         /\ calculateMetrics(<< allIssues[j] >>).maintainabilityScore
                                < baseScore
                         /\ calculateMetrics(allIssues).maintainabilityScore
                                < baseScore

(* A run with findings of the three categories and the three severities,    *)
(* one of them a duplication.                                               *)
C28_Witness ==
    /\ pc = "awaiting"
    /\ { allIssues[j].category : j \in 1..Len(allIssues) }
           = { "security", "performance", "complexity" }
    /\ { allIssues[j].severity : j \in 1..Len(allIssues) }
           = { "critical", "high", "medium" }
    /\ \E j \in 1..Len(allIssues) :
           allIssues[j].title = "Code Duplication Detected"
-----------------------------------------------------------------------------
(* Properties of the HTTP server and of the files it hands to analyzeCode. *)

(* The requests whose handler has started. *)
Started == { r \in 1..MaxRequests : server.requests[r].pc # "idle" }

(* C25: no file larger than 1 MiB (1024 * 1024 bytes) is among the files a  *)
(* handler got from FileParser, from parseFiles for uploaded files as from  *)
(* parseDirectory for a directory.                                          *)
C25_OversizedFilesExcluded ==
    pc = "listening"
        => \A r \in Started :
               \A k \in 1..Len(server.requests[r].codeFiles) :
                   server.requests[r].codeFiles[k].size <= 1024 * 1024

(* The requests answered with success and a reportId. *)
Succeeded ==
    { r \in Started : server.requests[r].status = "200" }

(* C29: the cache holds, under the reportId returned to a client, the       *)
(* result of that client's own analysis, and what GET /api/report/:id and   *)
(* POST /api/ask use for that id is that result.                            *)
C29_CacheEntryIsOwnResult ==
    pc = "listening"
        => \A r \in Succeeded :
               /\ server.cache[server.requests[r].reportId]
                      = server.requests[r].result
               /\ server.requests[r].pc = "read"
                      => server.requests[r].used = server.requests[r].result

(* The requests for POST /api/analyze/files that ended with 400 "No         *)
(* supported code files found" or with 500.                                 *)
FailedUploads ==
    { r \in Started :
          /\ server.requests[r].kind = "files"
          /\ server.requests[r].status
                 \in { "400 No supported code files found", "500" } }

(* C30: a POST /api/analyze/files request that ended with 400 "No supported *)
(* code files found" or with 500 has its uploaded files still in uploads/   *)
(* and has added no entry to the cache; one that ended with success has     *)
(* added its entry.                                                         *)
C30_CleanupOnlyOnSuccess ==
    pc = "listening"
        => /\ \A r \in FailedUploads :
                  /\ server.requests[r].stored \subseteq server.uploads
                  /\ "reportId" \notin DOMAIN server.requests[r]
           /\ \A r \in Succeeded :
                  server.requests[r].reportId \in DOMAIN server.cache
=============================================================================
